---- MODULE Spec2Model ----
(***************************************************************************)
(* A model of DuckyRecorder.py: the EventRecorder (timeline recorder,     *)
(* modifier tracker, finalisation in save_recording, load_recording, the  *)
(* instruction compiler export_for_arduino and the motion decomposer      *)
(* _split_mouse_move).                                                    *)
(*                                                                         *)
(* Conventions.                                                            *)
(*  - An event or an instruction is a Python dict: a TLA+ function from   *)
(*    field names to values whose domain is the set of keys present.      *)
(*  - Time is counted in whole milliseconds; now is time.time() and a     *)
(*    handler reads the clock once.  The clock only moves forward.        *)
(*  - A key string recorded in an event is an atomic string.  The device  *)
(*    key of an instruction is a sequence of tokens: a named constant is  *)
(*    the one-token sequence <<"KEY_ESC">>, a character literal is the    *)
(*    sequence of its characters, <<"'", "a", "'">>.                      *)
(*  - A pynput key object is [cls |-> "Key", name |-> n] or               *)
(*    [cls |-> "KeyCode", char |-> c].                                    *)
(***************************************************************************)
EXTENDS Integers, Sequences, FiniteSets, TLC

VARIABLES
    events,              \* self.events
    start_time,          \* self.start_time: <<>> is None, <<t>> a time
    is_recording,        \* self.is_recording
    paused,              \* self.paused
    current_modifiers,   \* self.current_modifiers
    active_modifiers,    \* self.active_modifiers
    last_mouse_pos,      \* self.last_mouse_pos
    last_move_time,      \* self.last_move_time
    record_mouse_moves,  \* self.record_mouse_moves
    min_mouse_move,      \* self.min_mouse_move
    mouse_move_interval, \* self.mouse_move_interval
    screen_width,        \* self.screen_width
    screen_height,       \* self.screen_height
    now,                 \* time.time(), in ms
    disk,                \* the recording file: <<>> when absent, <<content>>
    arduino_events,      \* the instruction list written by the last export
    split_call,          \* arguments of a _split_mouse_move call
    split_moves,         \* its result
    pc,                  \* where each thread is in the code it runs
    local,               \* the local variables of each thread
    discarded,           \* the states in which a raw input was discarded
    ino,                 \* the program text written by the last export
    outcome,             \* how the last file operation ended
    filename             \* self.filename: <<>> is None, <<name>> a name

recVars  == <<events, start_time, is_recording, paused, current_modifiers,
              active_modifiers>>
mouseVars == <<last_mouse_pos, last_move_time>>
screenVars == <<screen_width, screen_height>>
splitVars == <<split_call, split_moves>>
threadVars == <<pc, local>>
settingsVars == <<record_mouse_moves, min_mouse_move, mouse_move_interval>>
auxVars == <<pc, local, discarded, record_mouse_moves, min_mouse_move,
             mouse_move_interval, filename>>
vars == <<events, start_time, is_recording, paused, current_modifiers,
          active_modifiers, last_mouse_pos, last_move_time, screen_width,
          screen_height, now, disk, arduino_events, split_call, split_moves,
          pc, local, discarded, ino, outcome, record_mouse_moves,
          min_mouse_move, mouse_move_interval, filename>>

\* The keyboard listener thread, the mouse listener thread and the thread
\* of the menu.
Threads == {"keyboard", "mouse", "menu"}

(***************************************************************************)
(* Bounds of the model.                                                    *)
(***************************************************************************)
MaxEvents == 6        \* longest timeline explored by the recorder
MaxTicks == 1         \* clock ticks explored
TickMs == 10          \* milliseconds per clock tick
MaxFileEvents == 4    \* longest timeline that is saved, loaded and exported
MaxCompileLen == 2    \* longest drawn timeline that is compiled
MaxMove == 5          \* |dx|, |dy| <= MaxMove in direct decomposer calls
MaxStepArg == 3       \* max_step arguments 1..MaxStepArg in direct calls

(***************************************************************************)
(* Python helpers.                                                         *)
(***************************************************************************)
Get(d, k, default) == IF k \in DOMAIN d THEN d[k] ELSE default

Put(d, k, v) == [f \in DOMAIN d \cup {k} |-> IF f = k THEN v ELSE d[f]]

Abs(n) == IF n < 0 THEN -n ELSE n

Min(a, b) == IF a < b THEN a ELSE b

Max(a, b) == IF a > b THEN a ELSE b

RECURSIVE SumSeq(_)
SumSeq(s) == IF s = <<>> THEN 0 ELSE s[1] + SumSeq(Tail(s))

\* Every ordering of the elements of a finite set: the orders in which
\* Python may iterate a set.
Orders(S) == {s \in [1..Cardinality(S) -> S] :
                 \A i, j \in 1..Cardinality(S) : i # j => s[i] # s[j]}

(***************************************************************************)
(* The motion decomposer.                                                  *)
(***************************************************************************)
RECURSIVE StepsLoop(_, _, _)
StepsLoop(remaining, direction, max_step) ==
    IF remaining > 0
    THEN LET step == Min(remaining, max_step)
         IN  <<step * direction>> \o StepsLoop(remaining - step, direction, max_step)
    ELSE <<>>

\* _calculate_steps that loses the sign of the value.
_calculate_steps_unsigned(value, max_step) ==
    IF value = 0 THEN <<>> ELSE StepsLoop(Abs(value), 1, max_step)

_calculate_steps(value, max_step) ==
    IF value = 0
    THEN <<>>
    ELSE StepsLoop(Abs(value), IF value > 0 THEN 1 ELSE -1, max_step)

\* _split_mouse_move that pairs the axes like zip: the longer axis is cut.
_split_mouse_move_zip(dx, dy, max_step) ==
    LET steps_x == _calculate_steps(dx, max_step)
        steps_y == _calculate_steps(dy, max_step)
    IN  [i \in 1..Min(Len(steps_x), Len(steps_y)) |->
            [dx |-> steps_x[i], dy |-> steps_y[i]]]

_split_mouse_move(dx, dy, max_step) ==
    LET steps_x == _calculate_steps(dx, max_step)
        steps_y == _calculate_steps(dy, max_step)
        max_steps == Max(Len(steps_x), Len(steps_y))
    IN  [i \in 1..max_steps |->
            [dx |-> IF i <= Len(steps_x) THEN steps_x[i] ELSE 0,
             dy |-> IF i <= Len(steps_y) THEN steps_y[i] ELSE 0]]

(***************************************************************************)
(* Keys.  A character is a one-character string; the control characters    *)
(* and the backquote, which TLA+ cannot write in a string, are named by    *)
(* their escape ("\\x1b", "\\x60").                                        *)
(***************************************************************************)
Letters == [a |-> "A", b |-> "B", c |-> "C", d |-> "D", e |-> "E", f |-> "F",
            g |-> "G", h |-> "H", i |-> "I", j |-> "J", k |-> "K", l |-> "L",
            m |-> "M", n |-> "N", o |-> "O", p |-> "P", q |-> "Q", r |-> "R",
            s |-> "S", t |-> "T", u |-> "U", v |-> "V", w |-> "W", x |-> "X",
            y |-> "Y", z |-> "Z"]

UpperLetters == {Letters[c] : c \in DOMAIN Letters}

isalpha(c) == c \in DOMAIN Letters \/ c \in UpperLetters

upper(c) == IF c \in DOMAIN Letters THEN Letters[c] ELSE c

shift_map == { <<"\\x60", "~">>, <<"1", "!">>, <<"2", "@">>, <<"3", "#">>,
               <<"4", "$">>, <<"5", "%">>, <<"6", "^">>, <<"7", "&">>,
               <<"8", "*">>, <<"9", "(">>, <<"0", ")">>, <<"-", "_">>,
               <<"=", "+">>, <<"[", "{">>, <<"]", "}">>, <<"\\", "|">>,
               <<";", ":">>, <<"'", "\"">>, <<",", "<">>, <<".", ">">>,
               <<"/", "?">> }

MapGet(pairs, k, default) ==
    IF \E p \in pairs : p[1] = k
    THEN (CHOOSE p \in pairs : p[1] = k)[2]
    ELSE default

special_chars == { <<"\t", "TAB">>, <<"\n", "ENTER">>, <<"\r", "ENTER">>,
                   <<" ", "SPACE">>, <<"\\x1b", "ESC">>,
                   <<"\\x08", "BACKSPACE">>, <<"\\x7f", "DELETE">> }

\* The characters of the model: the strings of length 1.
Chars == DOMAIN Letters \cup UpperLetters
         \cup {p[1] : p \in shift_map} \cup {p[2] : p \in shift_map}
         \cup {p[1] : p \in special_chars}
         \cup {"\\a", "\\b", "\\f", "\\v"}

\* len(key) for a recorded key string: 2 stands for every greater length.
StrLen(key) == IF key = "" THEN 0 ELSE IF key \in Chars THEN 1 ELSE 2

arduino_map == [esc |-> "ESC", enter |-> "ENTER", tab |-> "TAB",
                space |-> "SPACE", backspace |-> "BACKSPACE",
                delete |-> "DELETE", shift |-> "SHIFT_LEFT",
                shift_r |-> "SHIFT_RIGHT", shift_l |-> "SHIFT_LEFT",
                ctrl |-> "CTRL_LEFT", ctrl_r |-> "CTRL_RIGHT",
                ctrl_l |-> "CTRL_LEFT", alt |-> "ALT_LEFT",
                alt_r |-> "ALT_RIGHT", alt_l |-> "ALT_LEFT",
                cmd |-> "GUI_LEFT", cmd_r |-> "GUI_RIGHT",
                cmd_l |-> "GUI_LEFT", up |-> "UP_ARROW",
                down |-> "DOWN_ARROW", left |-> "LEFT_ARROW",
                right |-> "RIGHT_ARROW", f1 |-> "F1", f2 |-> "F2",
                f3 |-> "F3", f4 |-> "F4", f5 |-> "F5", f6 |-> "F6",
                f7 |-> "F7", f8 |-> "F8", f9 |-> "F9", f10 |-> "F10",
                f11 |-> "F11", f12 |-> "F12", home |-> "HOME", end |-> "END",
                page_up |-> "PAGE_UP", page_down |-> "PAGE_DOWN",
                caps_lock |-> "CAPS_LOCK", num_lock |-> "NUM_LOCK",
                print_screen |-> "PRINT_SCREEN",
                scroll_lock |-> "SCROLL_LOCK", pause |-> "PAUSE",
                insert |-> "INSERT", menu |-> "MENU"]

KeyObj(name) == [cls |-> "Key", name |-> name]

CharObj(c) == [cls |-> "KeyCode", char |-> c]

\* A KeyCode without a character stringifies as "KEYCODE_<vk>", modelled by
\* the one string "KEYCODE_VK"; the keys of the model are all in arduino_map,
\* so the name.upper() fallback is not needed.
_key_to_str(key) ==
    IF key.cls = "KeyCode"
    THEN IF key.char # ""
         THEN MapGet(special_chars, key.char, key.char)
         ELSE "KEYCODE_VK"
    ELSE arduino_map[key.name]

_is_modifier(key) ==
    /\ key.cls = "Key"
    /\ key.name \in {"shift", "shift_r", "shift_l", "ctrl", "ctrl_l", "ctrl_r",
                     "alt", "alt_l", "alt_r", "cmd", "cmd_l", "cmd_r"}

\* 'SHIFT' in key_upper, and so on, for the modifier key strings.
Contains(key_str, word) ==
    \/ word = "SHIFT" /\ key_str \in {"SHIFT_LEFT", "SHIFT_RIGHT"}
    \/ word = "CTRL" /\ key_str \in {"CTRL_LEFT", "CTRL_RIGHT"}
    \/ word = "ALT" /\ key_str \in {"ALT_LEFT", "ALT_RIGHT"}
    \/ word = "GUI" /\ key_str \in {"GUI_LEFT", "GUI_RIGHT"}

_update_modifier_state(mods, key_str, pressed) ==
    IF Contains(key_str, "SHIFT") THEN [mods EXCEPT !.SHIFT = pressed]
    ELSE IF Contains(key_str, "CTRL") THEN [mods EXCEPT !.CTRL = pressed]
    ELSE IF Contains(key_str, "ALT") THEN [mods EXCEPT !.ALT = pressed]
    ELSE IF Contains(key_str, "GUI") THEN [mods EXCEPT !.GUI = pressed]
    ELSE mods

NoModifiers == [SHIFT |-> FALSE, CTRL |-> FALSE, ALT |-> FALSE, GUI |-> FALSE]

(***************************************************************************)
(* The timeline recorder.                                                  *)
(***************************************************************************)
_get_elapsed_ms ==
    IF start_time = <<>> \/ start_time[1] = 0 THEN 0 ELSE now - start_time[1]

\* _add_event under the flags in force when it is called.
_add_event(evs, recording, pausedNow, event) ==
    IF recording /\ ~pausedNow THEN Append(evs, event) ELSE evs

HasKeyObj(key_obj) == key_obj.cls # "None"

NoKeyObj == [cls |-> "None"]

\* The dict _add_key_event builds (scan_code, a platform value that nothing
\* reads, is left out).
KeyEvent(event_type, key_str, key_obj) ==
    LET event == [type |-> IF event_type = "down" THEN "key_down" ELSE "key_up",
                  key |-> key_str,
                  t |-> _get_elapsed_ms]
    IN  IF HasKeyObj(key_obj)
        THEN Put(event, "modifier", _is_modifier(key_obj))
        ELSE event

_add_key_event(evs, recording, pausedNow, event_type, key_str, key_obj) ==
    _add_event(evs, recording, pausedNow, KeyEvent(event_type, key_str, key_obj))

StartEvent == [type |-> "start", t |-> 0, screen_width |-> screen_width,
               screen_height |-> screen_height]

PauseEvent == [type |-> "pause", t |-> _get_elapsed_ms]

ResumeEvent == [type |-> "resume", t |-> _get_elapsed_ms]

StopEvent == [type |-> "stop", t |-> _get_elapsed_ms,
              duration |-> _get_elapsed_ms]

\* The timeline grows only while there is room in the model.
Room(n) == Len(events) + n <= MaxEvents

\* The name start_recording makes up when the operator gives none (its
\* timestamp is left out).
AutoName == "recording.json"

\* The operator leaves the name of the recording blank.
start_recording ==
    /\ ~is_recording
    /\ Room(1)
    /\ start_time' = <<now>>
    /\ is_recording' = TRUE
    /\ paused' = FALSE
    /\ last_move_time' = 0
    /\ current_modifiers' = {}
    /\ active_modifiers' = NoModifiers
    /\ events' = _add_event(events, TRUE, FALSE,
                            StartEvent)
    /\ filename' = <<AutoName>>
    /\ UNCHANGED <<last_mouse_pos, screenVars, now, disk, arduino_events,
                   splitVars, threadVars, discarded, settingsVars, ino,
                   outcome>>

\* A toggle that takes the pause out of the elapsed time: the resume moves
\* start_time so that the clock goes on from the last recorded event.
pause_body_rebased ==
    /\ paused' = ~paused
    /\ events' = IF ~paused
                 THEN _add_event(events, is_recording, ~paused, PauseEvent)
                 ELSE _add_event(events, is_recording, ~paused, ResumeEvent)
    /\ start_time' = IF paused /\ events # <<>>
                     THEN <<now - events[Len(events)].t>>
                     ELSE start_time
    /\ UNCHANGED <<is_recording, current_modifiers,
                   active_modifiers, mouseVars, screenVars, now, disk,
                   arduino_events, splitVars, auxVars, ino,
                   outcome>>

\* The body of pause_recording once is_recording is known to hold.
pause_body ==
    /\ paused' = ~paused
    /\ events' = IF ~paused
                 THEN _add_event(events, is_recording, ~paused, PauseEvent)
                 ELSE _add_event(events, is_recording, ~paused, ResumeEvent)
    /\ UNCHANGED <<start_time, is_recording, current_modifiers,
                   active_modifiers, mouseVars, screenVars, now, disk,
                   arduino_events, splitVars, auxVars, ino,
                   outcome>>

pause_recording ==
    /\ is_recording
    /\ Room(1)
    /\ pause_body

\* The releases stop_recording synthesizes, in the order the set is iterated.
RECURSIVE ReleaseAll(_, _)
ReleaseAll(evs, order) ==
    IF order = <<>>
    THEN evs
    ELSE ReleaseAll(_add_key_event(evs, is_recording, paused, "up", order[1],
                                   NoKeyObj),
                    Tail(order))

\* stop_recording without the synthesized releases.
stop_body_no_release ==
    /\ events' = _add_event(events, is_recording, paused, StopEvent)
    /\ is_recording' = FALSE
    /\ paused' = FALSE
    /\ UNCHANGED <<start_time, current_modifiers, active_modifiers, mouseVars,
                   screenVars, now, disk, arduino_events, splitVars, auxVars, ino,
                   outcome>>

\* The body of stop_recording once is_recording is known to hold.
stop_body ==
    /\ \E order \in Orders(current_modifiers) :
          events' = _add_event(ReleaseAll(events, order), is_recording, paused,
                               StopEvent)
    /\ is_recording' = FALSE
    /\ paused' = FALSE
    /\ UNCHANGED <<start_time, current_modifiers, active_modifiers, mouseVars,
                   screenVars, now, disk, arduino_events, splitVars, auxVars, ino,
                   outcome>>

stop_recording ==
    /\ is_recording
    /\ Room(Cardinality(current_modifiers) + 1)
    /\ stop_body

clear_events ==
    /\ events # <<>>
    /\ events' = <<>>
    /\ last_mouse_pos' = <<0, 0>>
    /\ current_modifiers' = {}
    /\ active_modifiers' = NoModifiers
    /\ UNCHANGED <<start_time, is_recording, paused, last_move_time,
                   screenVars, now, disk, arduino_events, splitVars, auxVars, ino,
                   outcome>>

\* The key string recorded for a press of a character key.
PressedChar(char) ==
    IF active_modifiers.SHIFT /\ isalpha(char) THEN upper(char)
    ELSE IF active_modifiers.SHIFT THEN MapGet(shift_map, char, char)
    ELSE char

\* _on_key_press that records every press of a modifier, held or not.
_on_key_press_no_debounce(key) ==
    /\ is_recording /\ ~paused
    /\ LET key_str == _key_to_str(key) IN
       IF key = KeyObj("esc") THEN
            Room(Cardinality(current_modifiers) + 1) /\ stop_body
       ELSE IF key = KeyObj("f1") THEN
            Room(1) /\ pause_body
       ELSE /\ Room(1)
            /\ IF _is_modifier(key)
               THEN /\ current_modifiers' = current_modifiers \cup {key_str}
                    /\ active_modifiers' =
                           _update_modifier_state(active_modifiers, key_str, TRUE)
               ELSE UNCHANGED <<current_modifiers, active_modifiers>>
            /\ events' = _add_key_event(
                   events, is_recording, paused, "down",
                   IF key.cls = "KeyCode" /\ key.char # ""
                   THEN PressedChar(key.char) ELSE key_str,
                   key)
            /\ UNCHANGED <<start_time, is_recording, paused, mouseVars,
                           screenVars, now, disk, arduino_events, splitVars,
                           auxVars, ino, outcome>>

_on_key_press(key) ==
    /\ is_recording /\ ~paused
    /\ LET key_str == _key_to_str(key) IN
       IF key = KeyObj("esc") THEN
            Room(Cardinality(current_modifiers) + 1) /\ stop_body
       ELSE IF key = KeyObj("f1") THEN
            Room(1) /\ pause_body
       ELSE IF _is_modifier(key) THEN
            /\ Room(1)
            /\ IF key_str \notin current_modifiers
               THEN /\ current_modifiers' = current_modifiers \cup {key_str}
                    /\ active_modifiers' =
                           _update_modifier_state(active_modifiers, key_str, TRUE)
                    /\ events' = _add_key_event(events, is_recording, paused,
                                                "down", key_str, key)
               ELSE UNCHANGED <<current_modifiers, active_modifiers, events>>
            /\ UNCHANGED <<start_time, is_recording, paused, mouseVars,
                           screenVars, now, disk, arduino_events, splitVars, auxVars, ino,
                   outcome>>
       ELSE /\ Room(1)
            /\ events' = _add_key_event(
                   events, is_recording, paused, "down",
                   IF key.cls = "KeyCode" /\ key.char # ""
                   THEN PressedChar(key.char) ELSE key_str,
                   key)
            /\ UNCHANGED <<start_time, is_recording, paused, current_modifiers,
                           active_modifiers, mouseVars, screenVars, now, disk,
                           arduino_events, splitVars, auxVars, ino,
                   outcome>>

_on_key_release(key) ==
    /\ is_recording /\ ~paused
    /\ Room(1)
    /\ LET key_str == _key_to_str(key) IN
       IF _is_modifier(key) THEN
            IF key_str \in current_modifiers
            THEN /\ current_modifiers' = current_modifiers \ {key_str}
                 /\ active_modifiers' =
                        _update_modifier_state(active_modifiers, key_str, FALSE)
                 /\ events' = _add_key_event(events, is_recording, paused,
                                             "up", key_str, key)
            ELSE UNCHANGED <<current_modifiers, active_modifiers, events>>
       ELSE /\ events' = _add_key_event(events, is_recording, paused, "up",
                                        key_str, key)
            /\ UNCHANGED <<current_modifiers, active_modifiers>>
    /\ UNCHANGED <<start_time, is_recording, paused, mouseVars, screenVars,
                   now, disk, arduino_events, splitVars, auxVars, ino,
                   outcome>>

\* The state of the recorder's state machine.
RecorderState ==
    IF is_recording THEN (IF paused THEN "Paused" ELSE "Recording")
    ELSE IF events = <<>> THEN "Idle" ELSE "Stopped"

\* The return of a callback that finds the recorder not recording or
\* paused: the raw input is discarded.
Discard ==
    /\ discarded' = discarded \cup {RecorderState}
    /\ UNCHANGED <<recVars, mouseVars, screenVars, now, disk, arduino_events,
                   splitVars, threadVars, settingsVars, filename, ino, outcome>>

\* _on_click that tests is_recording alone.
_on_click_ignores_pause(x, y, button, pressed) ==
    IF ~is_recording
    THEN Discard
    ELSE /\ Room(1)
         /\ events' = _add_event(events, is_recording, paused,
                [type |-> IF pressed THEN "mouse_down" ELSE "mouse_up",
                 button |-> button, x |-> x, y |-> y, t |-> _get_elapsed_ms])
         /\ last_mouse_pos' = <<x, y>>
         /\ UNCHANGED <<start_time, is_recording, paused, current_modifiers,
                        active_modifiers, last_move_time, screenVars, now,
                        disk, arduino_events, splitVars, auxVars, ino,
                        outcome>>

\* The events of the mouse callbacks are modelled without norm_x and
\* norm_y, quotients that nothing reads.
_on_click(x, y, button, pressed) ==
    IF ~is_recording \/ paused
    THEN Discard
    ELSE /\ Room(1)
         /\ events' = _add_event(events, is_recording, paused,
                [type |-> IF pressed THEN "mouse_down" ELSE "mouse_up",
                 button |-> button, x |-> x, y |-> y, t |-> _get_elapsed_ms])
         /\ last_mouse_pos' = <<x, y>>
         /\ UNCHANGED <<start_time, is_recording, paused, current_modifiers,
                        active_modifiers, last_move_time, screenVars, now,
                        disk, arduino_events, splitVars, auxVars, ino,
                        outcome>>

\* _on_move that asks for the displacement on both axes.
_on_move_both_axes(x, y) ==
    IF ~is_recording \/ paused \/ ~record_mouse_moves
    THEN Discard
    ELSE LET elapsed == now - last_move_time
             dx == x - last_mouse_pos[1]
             dy == y - last_mouse_pos[2]
         IN  IF \/ elapsed < mouse_move_interval
                \/ Abs(dx) < min_mouse_move \/ Abs(dy) < min_mouse_move
             THEN UNCHANGED vars
             ELSE /\ Room(1)
                  /\ last_move_time' = now
                  /\ last_mouse_pos' = <<x, y>>
                  /\ events' = _add_event(events, is_recording, paused,
                         [type |-> "mouse_move", x |-> x, y |-> y,
                          dx |-> dx, dy |-> dy, t |-> _get_elapsed_ms])
                  /\ UNCHANGED <<start_time, is_recording, paused,
                                 current_modifiers, active_modifiers,
                                 screenVars, now, disk, arduino_events,
                                 splitVars, auxVars, ino, outcome>>

_on_move(x, y) ==
    IF ~is_recording \/ paused \/ ~record_mouse_moves
    THEN Discard
    ELSE LET elapsed == now - last_move_time
             dx == x - last_mouse_pos[1]
             dy == y - last_mouse_pos[2]
         IN  IF \/ elapsed < mouse_move_interval
                \/ Abs(dx) < min_mouse_move /\ Abs(dy) < min_mouse_move
             THEN UNCHANGED vars
             ELSE /\ Room(1)
                  /\ last_move_time' = now
                  /\ last_mouse_pos' = <<x, y>>
                  /\ events' = _add_event(events, is_recording, paused,
                         [type |-> "mouse_move", x |-> x, y |-> y,
                          dx |-> dx, dy |-> dy, t |-> _get_elapsed_ms])
                  /\ UNCHANGED <<start_time, is_recording, paused,
                                 current_modifiers, active_modifiers,
                                 screenVars, now, disk, arduino_events,
                                 splitVars, auxVars, ino, outcome>>

_on_scroll(x, y, dx, dy) ==
    IF ~is_recording \/ paused
    THEN Discard
    ELSE /\ Room(1)
         /\ events' = _add_event(events, is_recording, paused,
                [type |-> "mouse_scroll", x |-> x, y |-> y, dx |-> dx,
                 dy |-> dy, t |-> _get_elapsed_ms])
         /\ UNCHANGED <<start_time, is_recording, paused, current_modifiers,
                        active_modifiers, mouseVars, screenVars, now, disk,
                        arduino_events, splitVars, auxVars, ino, outcome>>

\* time.time() when the program starts, in ms.
Epoch == 1000

\* Time passes.  Outside a session the clock is read by nothing before
\* start_recording overwrites start_time, so only session time is explored.
Tick ==
    /\ is_recording
    /\ now + TickMs <= Epoch + MaxTicks * TickMs
    /\ now' = now + TickMs
    /\ UNCHANGED <<recVars, mouseVars, screenVars, disk, arduino_events,
                   splitVars, auxVars, ino,
                   outcome>>


(***************************************************************************)
(* Finalisation and persistence.                                           *)
(***************************************************************************)
\* The loop of save_recording: events_with_delays, from last_time on.
RECURSIVE DelayLoop(_, _)
DelayLoop(evs, last_time) ==
    IF evs = <<>>
    THEN <<>>
    ELSE <<Put(evs[1], "delay", evs[1].t - last_time)>>
         \o DelayLoop(Tail(evs), evs[1].t)

\* last_time when the loop ends.
RECURSIVE LastTime(_, _)
LastTime(evs, last_time) ==
    IF evs = <<>> THEN last_time ELSE LastTime(Tail(evs), evs[1].t)

\* The JSON document save_recording writes (the creation time, platform and
\* format strings, which nothing reads back, are left out).
SavedFile(evs, width, height) ==
    [metadata |-> [total_events |-> Len(evs),
                   duration_ms |-> LastTime(evs, 0),
                   screen_width |-> width,
                   screen_height |-> height],
     events |-> DelayLoop(evs, 0)]

\* The name the operator gives to the file that is saved and loaded.
FileName == "macro.json"

\* writable: open and json.dump succeed.  A failed write is modelled as
\* leaving the file as it was.
save_recording(writable) ==
    /\ events # <<>>
    /\ IF writable
       THEN /\ disk' = <<SavedFile(events, screen_width, screen_height)>>
            /\ filename' = <<FileName>>
            /\ outcome' = "True"
       ELSE /\ outcome' = "False"
            /\ UNCHANGED <<disk, filename>>
    /\ UNCHANGED <<recVars, mouseVars, screenVars, now, arduino_events,
                   splitVars, threadVars, discarded, settingsVars, ino>>

\* The fields of the metadata whose value is no number.
NotNum(meta) == Get(meta, "not_num", {})

\* meta.get('duration_ms', 0) / 1000 raises.
MetadataRaises(meta) == "duration_ms" \in NotNum(meta)

\* load_recording that reads the events and leaves the metadata alone.
load_recording_events_only(readable) ==
    IF ~readable \/ disk = <<>>
    THEN /\ outcome' = "False"
         /\ UNCHANGED <<recVars, mouseVars, screenVars, now, disk,
                        arduino_events, splitVars, auxVars, ino>>
    ELSE /\ events' = Get(disk[1], "events", <<>>)
         /\ filename' = <<FileName>>
         /\ outcome' = "True"
         /\ UNCHANGED <<start_time, is_recording, paused, current_modifiers,
                        active_modifiers, mouseVars, screenVars, now, disk,
                        arduino_events, splitVars, threadVars, discarded,
                        settingsVars, ino>>

\* readable: open and json.load succeed.
load_recording(readable) ==
    IF ~readable \/ disk = <<>>
    THEN /\ outcome' = "False"
         /\ UNCHANGED <<recVars, mouseVars, screenVars, now, disk,
                        arduino_events, splitVars, auxVars, ino>>
    ELSE /\ events' = Get(disk[1], "events", <<>>)
         /\ filename' = <<FileName>>
         /\ IF "metadata" \in DOMAIN disk[1]
            THEN IF MetadataRaises(disk[1].metadata)
                 THEN outcome' = "False" /\ UNCHANGED screenVars
                 ELSE /\ IF /\ "screen_width" \in DOMAIN disk[1].metadata
                            /\ "screen_height" \in DOMAIN disk[1].metadata
                         THEN /\ screen_width' = disk[1].metadata.screen_width
                              /\ screen_height' = disk[1].metadata.screen_height
                         ELSE UNCHANGED screenVars
                      /\ outcome' = "True"
            ELSE outcome' = "True" /\ UNCHANGED screenVars
         /\ UNCHANGED <<start_time, is_recording, paused, current_modifiers,
                        active_modifiers, mouseVars, now, disk,
                        arduino_events, splitVars, threadVars, discarded,
                        settingsVars, ino>>

(***************************************************************************)
(* The instruction compiler.                                               *)
(***************************************************************************)
MaxStep == 127

NoiseThreshold == 10

ScrollFactor == 3

\* int(v): the numbers of the model are integers.
PyInt(v) == v

escapes == { <<"\n", <<"\\", "n">> >>, <<"\r", <<"\\", "r">> >>,
             <<"\t", <<"\\", "t">> >>, <<"'", <<"\\", "'">> >>,
             <<"\"", <<"\\", "\"">> >>, <<"\\", <<"\\", "\\">> >>,
             <<"\\a", <<"\\", "a">> >>, <<"\\b", <<"\\", "b">> >>,
             <<"\\f", <<"\\", "f">> >>, <<"\\v", <<"\\", "v">> >> }

_escape_char(char) == MapGet(escapes, char, <<char>>)

\* f"'{...}'"
Quoted(chars) == <<"'">> \o chars \o <<"'">>

key_map == [ESC |-> "KEY_ESC", ENTER |-> "KEY_RETURN", TAB |-> "KEY_TAB",
            SPACE |-> "KEY_SPACE", BACKSPACE |-> "KEY_BACKSPACE",
            DELETE |-> "KEY_DELETE", SHIFT_LEFT |-> "KEY_LEFT_SHIFT",
            SHIFT_RIGHT |-> "KEY_RIGHT_SHIFT", CTRL_LEFT |-> "KEY_LEFT_CTRL",
            CTRL_RIGHT |-> "KEY_RIGHT_CTRL", ALT_LEFT |-> "KEY_LEFT_ALT",
            ALT_RIGHT |-> "KEY_RIGHT_ALT", GUI_LEFT |-> "KEY_LEFT_GUI",
            GUI_RIGHT |-> "KEY_RIGHT_GUI", UP_ARROW |-> "KEY_UP_ARROW",
            DOWN_ARROW |-> "KEY_DOWN_ARROW", LEFT_ARROW |-> "KEY_LEFT_ARROW",
            RIGHT_ARROW |-> "KEY_RIGHT_ARROW", F1 |-> "KEY_F1",
            F2 |-> "KEY_F2", F3 |-> "KEY_F3", F4 |-> "KEY_F4",
            F5 |-> "KEY_F5", F6 |-> "KEY_F6", F7 |-> "KEY_F7",
            F8 |-> "KEY_F8", F9 |-> "KEY_F9", F10 |-> "KEY_F10",
            F11 |-> "KEY_F11", F12 |-> "KEY_F12", HOME |-> "KEY_HOME",
            END |-> "KEY_END", PAGE_UP |-> "KEY_PAGE_UP",
            PAGE_DOWN |-> "KEY_PAGE_DOWN", CAPS_LOCK |-> "KEY_CAPS_LOCK",
            NUM_LOCK |-> "KEY_NUM_LOCK", PRINT_SCREEN |-> "KEY_PRINT_SCREEN",
            SCROLL_LOCK |-> "KEY_SCROLL_LOCK", PAUSE |-> "KEY_PAUSE",
            INSERT |-> "KEY_INSERT", MENU |-> "KEY_MENU"]

\* A lookup that passes a name without table entry through.
_to_arduino_keycode_raw(key) ==
    IF StrLen(key) = 1
    THEN Quoted(_escape_char(key))
    ELSE IF key \in DOMAIN key_map THEN <<key_map[key]>> ELSE <<key>>

\* None is the empty sequence.
_to_arduino_keycode(key) ==
    IF StrLen(key) = 1
    THEN Quoted(_escape_char(key))
    ELSE IF key \in DOMAIN key_map THEN <<key_map[key]>> ELSE <<>>

button_map == { <<"LEFT", "MOUSE_LEFT">>, <<"RIGHT", "MOUSE_RIGHT">>,
                <<"MIDDLE", "MOUSE_MIDDLE">> }

\* etype.startswith("mouse_"), for the event types of the model.
StartsWithMouse(etype) ==
    etype \in {"mouse_move", "mouse_down", "mouse_up", "mouse_scroll",
               "mouse_other"}

\* Sub-moves that all keep the delay of the event.
MoveInstructions_all_delayed(moves, delay) ==
    [i \in 1..Len(moves) |->
        [delay |-> delay, type |-> "MOUSE_MOVE",
         dx |-> moves[i].dx, dy |-> moves[i].dy]]

\* The sub-moves of one mouse_move event: the first keeps the delay.
MoveInstructions(moves, delay) ==
    [i \in 1..Len(moves) |->
        [delay |-> IF i = 1 THEN delay ELSE 0, type |-> "MOUSE_MOVE",
         dx |-> moves[i].dx, dy |-> moves[i].dy]]

\* A scroll branch that passes the vertical delta on as it is, zero or not.
ScrollInstructions_raw(dy, delay) ==
    <<[delay |-> delay, type |-> "MOUSE_SCROLL", amount |-> dy]>>

\* The instruction of one mouse_scroll event: none for a delta of 0.
ScrollInstructions(dy, delay) ==
    IF dy # 0
    THEN <<[delay |-> delay, type |-> "MOUSE_SCROLL",
            amount |-> PyInt(dy * ScrollFactor)]>>
    ELSE <<>>

\* What one pass of the export loop appends to arduino_events.
CompileEvent(event) ==
    LET delay == PyInt(Get(event, "delay", 0))
        etype == Get(event, "type", "")
    IN  IF etype \in {"key_down", "key_up"} THEN
            LET key == Get(event, "key", "")
                mapped == _to_arduino_keycode(key)
                arduino_key == IF mapped = <<>> /\ StrLen(key) = 1
                               THEN Quoted(_escape_char(key))
                               ELSE mapped
            IN  IF arduino_key = <<>>
                THEN <<>>
                ELSE <<[delay |-> delay,
                        type |-> IF etype = "key_down" THEN "KEY_PRESS"
                                 ELSE "KEY_RELEASE",
                        key |-> arduino_key]>>
        ELSE IF StartsWithMouse(etype) THEN
            IF etype = "mouse_move" THEN
                MoveInstructions(
                    _split_mouse_move(PyInt(Get(event, "dx", 0)),
                                      PyInt(Get(event, "dy", 0)), MaxStep),
                    delay)
            ELSE IF etype \in {"mouse_down", "mouse_up"} THEN
                <<[delay |-> delay,
                   type |-> IF etype = "mouse_down" THEN "MOUSE_PRESS"
                            ELSE "MOUSE_RELEASE",
                   button |-> MapGet(button_map, Get(event, "button", "LEFT"),
                                     "MOUSE_LEFT")]>>
            ELSE IF etype = "mouse_scroll" THEN
                ScrollInstructions(PyInt(Get(event, "dy", 0)), delay)
            ELSE <<>>
        ELSE <<>>

\* An export loop that appends each event's instructions in front.
RECURSIVE CompileLoop_reversed(_)
CompileLoop_reversed(evs) ==
    IF evs = <<>>
    THEN <<>>
    ELSE CompileLoop_reversed(Tail(evs)) \o CompileEvent(evs[1])

RECURSIVE CompileLoop(_)
CompileLoop(evs) ==
    IF evs = <<>> THEN <<>> ELSE CompileEvent(evs[1]) \o CompileLoop(Tail(evs))

\* A post-pass that also drops a delay of exactly the threshold.
Denoise_inclusive(ev) ==
    IF Get(ev, "delay", 0) <= NoiseThreshold THEN Put(ev, "delay", 0) ELSE ev

\* The post-pass: delays under the noise threshold become 0.
Denoise(ev) ==
    IF Get(ev, "delay", 0) < NoiseThreshold THEN Put(ev, "delay", 0) ELSE ev

OptimizeDelays(instrs) == [i \in 1..Len(instrs) |-> Denoise(instrs[i])]

\* The instruction list export_for_arduino writes.
Compile(evs) == OptimizeDelays(CompileLoop(evs))

\* The fields of an event whose value int() rejects.
NotInt(event) == Get(event, "not_int", {})

\* One pass of the export loop raises: int() of the delay, which every pass
\* converts first, or of the displacement the event's kind reads.
CompileEventRaises(event) ==
    LET etype == Get(event, "type", "")
    IN  \/ "delay" \in NotInt(event)
        \/ etype = "mouse_move" /\ NotInt(event) \cap {"dx", "dy"} # {}
        \/ etype = "mouse_scroll" /\ "dy" \in NotInt(event)

CompileRaises(evs) == \E i \in 1..Len(evs) : CompileEventRaises(evs[i])

(***************************************************************************)
(* The program renderer.  The program text is the statements of setup()    *)
(* and the statements of executeEvents(), each statement a call with its   *)
(* parameters.                                                             *)
(***************************************************************************)
Stmt(call, params) == [call |-> call, params |-> params]

\* setup() that releases everything before it replays.
template_top_release_first ==
    << Stmt("delay", <<3000>>),
       Stmt("Keyboard.begin", <<>>),
       Stmt("Mouse.begin", <<>>),
       Stmt("Keyboard.releaseAll", <<>>),
       Stmt("Mouse.release", <<"MOUSE_LEFT">>),
       Stmt("Mouse.release", <<"MOUSE_RIGHT">>),
       Stmt("Mouse.release", <<"MOUSE_MIDDLE">>),
       Stmt("executeEvents", <<>>) >>

\* The statements of setup() in template_top.
template_top ==
    << Stmt("delay", <<3000>>),
       Stmt("Keyboard.begin", <<>>),
       Stmt("Mouse.begin", <<>>),
       Stmt("executeEvents", <<>>),
       Stmt("Keyboard.releaseAll", <<>>),
       Stmt("Mouse.release", <<"MOUSE_LEFT">>),
       Stmt("Mouse.release", <<"MOUSE_RIGHT">>),
       Stmt("Mouse.release", <<"MOUSE_MIDDLE">>) >>

\* k.startswith("'") and k.endswith("'") for a device key.
IsQuoted(k) == k # <<>> /\ k[1] = "'" /\ k[Len(k)] = "'"

\* k.lstrip("'")
RECURSIVE LStrip(_)
LStrip(k) == IF k # <<>> /\ k[1] = "'" THEN LStrip(Tail(k)) ELSE k

\* k.rstrip("'")
RECURSIVE RStrip(_)
RStrip(k) ==
    IF k # <<>> /\ k[Len(k)] = "'" THEN RStrip(SubSeq(k, 1, Len(k) - 1)) ELSE k

\* k.strip("'")
Strip(k) == RStrip(LStrip(k))

\* c_escape_char(ch): the escapes table is keyed by single characters.
c_escape_char(ch) == IF Len(ch) = 1 THEN _escape_char(ch[1]) ELSE ch

\* The native call the renderer writes for one instruction, if any.
RenderCall(ev) ==
    LET typ == Get(ev, "type", "None")
    IN  IF typ = "KEY_PRESS" THEN
            LET k == Get(ev, "key", <<>>)
            IN  IF IsQuoted(k) /\ Len(k) >= 3
                THEN <<Stmt("Keyboard.write", <<Quoted(c_escape_char(Strip(k)))>>)>>
                ELSE <<Stmt("Keyboard.press", <<k>>)>>
        ELSE IF typ = "KEY_RELEASE" THEN
            LET k == Get(ev, "key", <<>>)
            IN  IF ~IsQuoted(k)
                THEN <<Stmt("Keyboard.release", <<k>>)>>
                ELSE <<>>
        ELSE IF typ = "MOUSE_MOVE" THEN
            <<Stmt("Mouse.move", <<PyInt(Get(ev, "dx", 0)),
                                   PyInt(Get(ev, "dy", 0)), 0>>)>>
        ELSE IF typ = "MOUSE_PRESS" THEN
            <<Stmt("Mouse.press", <<Get(ev, "button", "MOUSE_LEFT")>>)>>
        ELSE IF typ = "MOUSE_RELEASE" THEN
            <<Stmt("Mouse.release", <<Get(ev, "button", "MOUSE_LEFT")>>)>>
        ELSE IF typ = "MOUSE_SCROLL" THEN
            <<Stmt("Mouse.move", <<0, 0, PyInt(Get(ev, "amount", 0))>>)>>
        ELSE <<Stmt("//", <<typ>>)>>

\* A renderer that writes the wait of every instruction, also delay(0).
RenderEvent_always_waits(ev) ==
    <<Stmt("delay", <<PyInt(Get(ev, "delay", 0))>>)>> \o RenderCall(ev)

\* The lines the renderer appends for one instruction.
RenderEvent(ev) ==
    LET d == PyInt(Get(ev, "delay", 0))
    IN  (IF d > 0 THEN <<Stmt("delay", <<d>>)>> ELSE <<>>) \o RenderCall(ev)

RECURSIVE RenderLoop(_)
RenderLoop(instrs) ==
    IF instrs = <<>> THEN <<>>
    ELSE RenderEvent(instrs[1]) \o RenderLoop(Tail(instrs))

\* A renderer that stamps the time of the export into the program.
_generate_arduino_example_dated(instrs) ==
    [setup |-> template_top, executeEvents |-> RenderLoop(instrs),
     exported |-> now]

\* The program _generate_arduino_example writes.
_generate_arduino_example(instrs) ==
    [setup |-> template_top, executeEvents |-> RenderLoop(instrs)]

\* A compile loop that raises writes nothing: the exception leaves
\* export_for_arduino before the files are opened.
\* json_writable: the write of the instruction list succeeds;
\* ino_writable: the write of the program text succeeds, the failure of
\* which _generate_arduino_example catches itself.  A failed write is
\* modelled as leaving the file as it was.
export_for_arduino(json_writable, ino_writable) ==
    /\ events # <<>>
    /\ IF CompileRaises(events)
       THEN /\ outcome' = "raised" /\ UNCHANGED <<arduino_events, ino>>
       ELSE IF ~json_writable
       THEN /\ outcome' = "False" /\ UNCHANGED <<arduino_events, ino>>
       ELSE /\ arduino_events' = <<Compile(events)>>
            /\ IF ino_writable
               THEN ino' = <<_generate_arduino_example(Compile(events))>>
               ELSE UNCHANGED ino
            /\ outcome' = "True"
    /\ UNCHANGED <<recVars, mouseVars, screenVars, now, disk, splitVars, auxVars>>

(***************************************************************************)
(* The recorder: sessions at the keyboard, save, load and export.          *)
(***************************************************************************)
PressedKeys == {KeyObj("ctrl_l"), KeyObj("shift_l"), CharObj("a"),
                KeyObj("esc"), KeyObj("f1")}

ReleasedKeys == {KeyObj("ctrl_l"), KeyObj("shift_l"), CharObj("a")}

Init ==
    /\ events = <<>>
    /\ start_time = <<>>
    /\ is_recording = FALSE
    /\ paused = FALSE
    /\ current_modifiers = {}
    /\ active_modifiers = NoModifiers
    /\ last_mouse_pos = <<0, 0>>
    /\ last_move_time = 0
    /\ screen_width = 1920
    /\ screen_height = 1080
    /\ now = Epoch
    /\ disk = <<>>
    /\ arduino_events = <<>>
    /\ split_call = <<>>
    /\ split_moves = <<>>
    /\ pc = [t \in Threads |-> "idle"]
    /\ local = [t \in Threads |-> <<>>]
    /\ discarded = {}
    /\ ino = <<>>
    /\ outcome = "None"
    /\ record_mouse_moves = TRUE
    /\ min_mouse_move = 5
    /\ mouse_move_interval = 50
    /\ filename = <<>>

KeyPress == \E key \in PressedKeys : _on_key_press(key)

KeyRelease == \E key \in ReleasedKeys : _on_key_release(key)

\* The operator clears the timeline between sessions.
ClearBetweenSessions == ~is_recording /\ clear_events

Next ==
    \/ start_recording
    \/ pause_recording
    \/ stop_recording
    \/ ClearBetweenSessions
    \/ KeyPress
    \/ KeyRelease
    \/ Tick

Spec == Init /\ [][Next]_vars

(***************************************************************************)
(* Persistence after the sessions: the operator records, then saves, loads *)
(* and exports; nothing more is recorded once a file or a program has been *)
(* written.  The file system does not fail here.                           *)
(***************************************************************************)
\* Nothing has been written yet.
Unsaved == disk = <<>> /\ arduino_events = <<>>

\* The timeline after the step is short enough to be persisted in the model.
Short == Len(events') <= MaxFileEvents

StartUnsaved == Unsaved /\ start_recording /\ Short

PauseUnsaved == Unsaved /\ pause_recording /\ Short

StopUnsaved == Unsaved /\ stop_recording /\ Short

KeyPressUnsaved == Unsaved /\ KeyPress /\ Short

KeyReleaseUnsaved == Unsaved /\ KeyRelease /\ Short

TickUnsaved == Unsaved /\ Tick

SaveStopped == ~is_recording /\ save_recording(TRUE)

LoadStopped == ~is_recording /\ disk # <<>> /\ load_recording(TRUE)

ExportStopped == ~is_recording /\ export_for_arduino(TRUE, TRUE)

NextFile ==
    \/ StartUnsaved
    \/ PauseUnsaved
    \/ StopUnsaved
    \/ KeyPressUnsaved
    \/ KeyReleaseUnsaved
    \/ TickUnsaved
    \/ SaveStopped
    \/ LoadStopped
    \/ ExportStopped

SpecFile == Init /\ [][NextFile]_vars

(***************************************************************************)
(* Properties of the recorder (Spec).                                      *)
(***************************************************************************)
\* A step that stops a session in the Recording state.
StopsWhileRecording == is_recording /\ ~paused /\ ~is_recording'

\* C1: when stop_recording acts in the Recording state, the timeline grows
\* by exactly one key_up event for each modifier of the currently-down set,
\* followed by the stop marker: every synthesized release precedes the
\* marker, which is the last event.
C1_StopReleasesHeldModifiers ==
    [][StopsWhileRecording =>
        LET n == Cardinality(current_modifiers)
            old == Len(events)
        IN  /\ Len(events') = old + n + 1
            /\ SubSeq(events', 1, old) = events
            /\ events'[old + n + 1].type = "stop"
            /\ \A i \in old + 1 .. old + n :
                  /\ events'[i].type = "key_up"
                  /\ events'[i].key \in current_modifiers
            /\ \A m \in current_modifiers :
                  Cardinality({i \in old + 1 .. old + n :
                                   events'[i].key = m}) = 1]_vars

\* C1 witness: a stopped session whose timeline ends with the releases of
\* two held modifiers (synthesized: no key object, so no "modifier" field)
\* and then the stop marker.
C1_Witness ==
    /\ ~is_recording
    /\ Len(events) >= 5
    /\ LET n == Len(events) IN
       /\ events[n].type = "stop"
       /\ events[n - 1].type = "key_up" /\ "modifier" \notin DOMAIN events[n - 1]
       /\ events[n - 2].type = "key_up" /\ "modifier" \notin DOMAIN events[n - 2]
       /\ {events[n - 1].key, events[n - 2].key} = {"CTRL_LEFT", "SHIFT_LEFT"}
       /\ current_modifiers = {"CTRL_LEFT", "SHIFT_LEFT"}

\* C9: start_recording from a non-recording state resets the four modifier
\* flags and the down-modifier set, and leaves a timeline that holds the
\* start marker with elapsed 0 as its first event and nothing recorded
\* before the start.
C9_StartClearsTimeline ==
    [][(~is_recording /\ is_recording') =>
        /\ active_modifiers' = NoModifiers
        /\ current_modifiers' = {}
        /\ Len(events') = 1
        /\ events'[1].type = "start"
        /\ events'[1].t = 0]_vars

\* C10: a toggle from Recording to Paused appends a pause marker and a
\* toggle from Paused to Recording appends a resume marker.
C10_ToggleAppendsMarker ==
    [][/\ (is_recording /\ is_recording' /\ ~paused /\ paused') =>
            /\ Len(events') = Len(events) + 1
            /\ events'[Len(events')].type = "pause"
       /\ (is_recording /\ is_recording' /\ paused /\ ~paused') =>
            /\ Len(events') = Len(events) + 1
            /\ events'[Len(events')].type = "resume"]_vars


\* The events of the last session of a timeline: from its last start
\* marker on.
RECURSIVE SessionStart(_, _)
SessionStart(evs, i) ==
    IF i = 0 THEN 1
    ELSE IF evs[i].type = "start" THEN i ELSE SessionStart(evs, i - 1)

Session(evs) == SubSeq(evs, SessionStart(evs, Len(evs)), Len(evs))

ModifierIds == {"SHIFT_LEFT", "SHIFT_RIGHT", "CTRL_LEFT", "CTRL_RIGHT",
                "ALT_LEFT", "ALT_RIGHT", "GUI_LEFT", "GUI_RIGHT"}

\* C15: a modifier that is already down produces no second key_down:
\* between two key_down events of the same modifier identifier in a
\* session's timeline there is always a key_up event of that identifier.
C15_ModifierDebounce ==
    LET evs == Session(events)
    IN  \A i, j \in 1..Len(evs) :
            (/\ i < j
             /\ evs[i].type = "key_down" /\ evs[j].type = "key_down"
             /\ evs[i].key \in ModifierIds /\ evs[j].key = evs[i].key)
            => \E k \in i + 1 .. j - 1 :
                   evs[k].type = "key_up" /\ evs[k].key = evs[i].key

\* C15 witness: a session in which SHIFT_LEFT went down, up and down again,
\* the second down still held.
C15_Witness ==
    LET evs == Session(events)
    IN  /\ is_recording
        /\ Len(evs) >= 4
        /\ evs[2].type = "key_down" /\ evs[2].key = "SHIFT_LEFT"
        /\ evs[3].type = "key_up" /\ evs[3].key = "SHIFT_LEFT"
        /\ evs[4].type = "key_down" /\ evs[4].key = "SHIFT_LEFT"
        /\ "SHIFT_LEFT" \in current_modifiers

(***************************************************************************)
(* The modifier tracker: one session at a keyboard with both SHIFT keys.   *)
(***************************************************************************)
MaxTrackerEvents == 5   \* longest timeline of the tracker's session

ShiftKeys == {KeyObj("shift_l"), KeyObj("shift_r")}

\* A letter, a character of the shift table and one outside it.
CharKeys == {CharObj("a"), CharObj("1"), CharObj("~")}

TrackerShort == Len(events') <= MaxTrackerEvents

TrackerStart == events = <<>> /\ start_recording

TrackerPress ==
    /\ \E key \in ShiftKeys \cup CharKeys : _on_key_press(key)
    /\ TrackerShort

TrackerRelease ==
    /\ \E key \in ShiftKeys : _on_key_release(key)
    /\ TrackerShort

NextTracker ==
    \/ TrackerStart
    \/ TrackerPress
    \/ TrackerRelease

SpecTracker == Init /\ [][NextTracker]_vars

\* SHIFT is down: a SHIFT key is in the currently-down modifier set.
ShiftDown == current_modifiers \cap {"SHIFT_LEFT", "SHIFT_RIGHT"} # {}

\* The key string of a character under SHIFT.
Shifted(c) ==
    IF isalpha(c) THEN upper(c)
    ELSE IF c = "1" THEN "!"
    ELSE IF \E p \in shift_map : p[1] = c
    THEN (CHOOSE p \in shift_map : p[1] = c)[2]
    ELSE c

\* C14: while SHIFT is down a key-down of an alphabetic character is
\* recorded as its uppercase form, one of a character of the shift table
\* as its substitute ('1' as '!') and one of a character outside the table
\* unchanged; the release of SHIFT clears the flag, and with SHIFT released
\* the same keys are recorded unshifted.
C14_ShiftResolution ==
    [][/\ \A key \in CharKeys :
            _on_key_press(key) =>
                events'[Len(events')].key =
                    IF ShiftDown THEN Shifted(key.char) ELSE key.char
       /\ \A key \in ShiftKeys :
            (_on_key_release(key) /\ Len(events') > Len(events)) =>
                ~active_modifiers'.SHIFT]_vars

(***************************************************************************)
(* Raw input in every state of one session: the listeners' callbacks at    *)
(* the keyboard and at the mouse, before the start, while recording, while *)
(* paused and after the stop.                                              *)
(***************************************************************************)
MaxInputEvents == 4   \* longest timeline of the session

InputKeys == {KeyObj("shift_l"), CharObj("a")}

\* The pointer positions the mouse reports.
Points == {<<0, 0>>, <<8, 3>>}

InputShort == Len(events') <= MaxInputEvents

InputStart == events = <<>> /\ start_recording

InputPause == pause_recording /\ InputShort

InputStop == stop_recording /\ InputShort

InputKeyPress ==
    /\ \E key \in InputKeys :
          IF ~is_recording \/ paused THEN Discard ELSE _on_key_press(key)
    /\ InputShort

InputKeyRelease ==
    /\ \E key \in InputKeys :
          IF ~is_recording \/ paused THEN Discard ELSE _on_key_release(key)
    /\ InputShort

InputClick ==
    /\ \E p \in Points : _on_click(p[1], p[2], "LEFT", TRUE)
    /\ InputShort

InputMove ==
    /\ \E p \in Points : _on_move(p[1], p[2])
    /\ InputShort

InputScroll ==
    /\ \E p \in Points : _on_scroll(p[1], p[2], 0, -1)
    /\ InputShort

NextInput ==
    \/ InputStart
    \/ InputPause
    \/ InputStop
    \/ InputKeyPress
    \/ InputKeyRelease
    \/ InputClick
    \/ InputMove
    \/ InputScroll

SpecInput == Init /\ [][NextInput]_vars

\* What the raw input callbacks may change.
inputVars == <<events, active_modifiers, current_modifiers, last_mouse_pos>>

\* C11: raw input callbacks append to the timeline and change modifier
\* state only in the Recording state: a raw input is discarded only
\* outside it, and while Paused, before the start and after the stop the
\* timeline, the modifier flags, the down-modifier set and the last
\* pointer position stay unchanged; the resume appends its marker alone, so
\* nothing received while Paused appears in the timeline after it.
C11_InputOnlyWhileRecording ==
    [][/\ RecorderState # "Recording" /\ RecorderState' = RecorderState
            => UNCHANGED inputVars
       /\ discarded' # discarded
            => RecorderState # "Recording" /\ UNCHANGED inputVars
       /\ RecorderState = "Paused" /\ RecorderState' = "Recording"
            => /\ Len(events') = Len(events) + 1
               /\ SubSeq(events', 1, Len(events)) = events
               /\ events'[Len(events')].type = "resume"
               /\ UNCHANGED <<active_modifiers, current_modifiers,
                              last_mouse_pos>>]_vars

\* C11 witness: raw input was discarded while Paused and the session, since
\* resumed, has recorded a click after its resume marker.
C11_Witness ==
    /\ RecorderState = "Recording"
    /\ "Paused" \in discarded
    /\ Len(events) >= 3
    /\ events[Len(events) - 1].type = "resume"
    /\ events[Len(events)].type = "mouse_down"

(***************************************************************************)
(* The threads of one session.  pynput runs the keyboard callbacks on the  *)
(* keyboard listener's thread and the mouse callbacks on the mouse         *)
(* listener's thread; the menu calls stop_recording on the main thread.    *)
(* Nothing in the recorder takes a lock, so the threads interleave between *)
(* the steps below: a callback builds its event, reading the clock, and    *)
(* then calls _add_event; stop_recording tests is_recording, appends the   *)
(* releases and the stop marker, and then clears the flags.  local[t] is   *)
(* the event thread t has built, pc[t] the step it is at.                  *)
(***************************************************************************)
MaxThreadEvents == 4  \* longest timeline of the threads' session

ThreadShort == Len(events') <= MaxThreadEvents

ThreadKeys == {KeyObj("shift_l"), CharObj("a")}

At(t, label) == pc[t] = label

Goto(t, label) == pc' = [pc EXCEPT ![t] = label]

ThreadStart ==
    /\ events = <<>>
    /\ \A t \in Threads : At(t, "idle")
    /\ start_recording

\* _on_key_press up to its call of _add_key_event: the event is built, the
\* clock read; a press of ESC goes on in stop_recording.
KeyboardPressOf(keys) ==
    /\ At("keyboard", "idle")
    /\ is_recording /\ ~paused
    /\ \E key \in keys :
          LET key_str == _key_to_str(key) IN
          IF key = KeyObj("esc") THEN
               /\ Goto("keyboard", "stop_check")
               /\ UNCHANGED <<current_modifiers, active_modifiers, local>>
          ELSE IF _is_modifier(key) THEN
               /\ key_str \notin current_modifiers
               /\ current_modifiers' = current_modifiers \cup {key_str}
               /\ active_modifiers' =
                      _update_modifier_state(active_modifiers, key_str, TRUE)
               /\ local' = [local EXCEPT !["keyboard"] =
                               KeyEvent("down", key_str, key)]
               /\ Goto("keyboard", "add")
          ELSE /\ local' = [local EXCEPT !["keyboard"] =
                               KeyEvent("down", PressedChar(key.char), key)]
               /\ Goto("keyboard", "add")
               /\ UNCHANGED <<current_modifiers, active_modifiers>>
    /\ UNCHANGED <<events, start_time, is_recording, paused, mouseVars,
                   screenVars, now, disk, arduino_events, splitVars,
                   discarded, settingsVars, filename, ino, outcome>>

KeyboardPress == KeyboardPressOf(ThreadKeys \cup {KeyObj("esc")})

\* A press of a key that is no hotkey.
KeyboardType == KeyboardPressOf(ThreadKeys)

\* _on_key_release up to its call of _add_key_event.
KeyboardRelease ==
    /\ At("keyboard", "idle")
    /\ is_recording /\ ~paused
    /\ \E key \in ThreadKeys :
          LET key_str == _key_to_str(key) IN
          /\ _is_modifier(key) => key_str \in current_modifiers
          /\ IF _is_modifier(key)
             THEN /\ current_modifiers' = current_modifiers \ {key_str}
                  /\ active_modifiers' =
                         _update_modifier_state(active_modifiers, key_str, FALSE)
             ELSE UNCHANGED <<current_modifiers, active_modifiers>>
          /\ local' = [local EXCEPT !["keyboard"] =
                          KeyEvent("up", key_str, key)]
    /\ Goto("keyboard", "add")
    /\ UNCHANGED <<events, start_time, is_recording, paused, mouseVars,
                   screenVars, now, disk, arduino_events, splitVars,
                   discarded, settingsVars, filename, ino, outcome>>

\* _on_click up to its call of _add_event.
MouseClick ==
    /\ At("mouse", "idle")
    /\ is_recording /\ ~paused
    /\ \E p \in Points :
          local' = [local EXCEPT !["mouse"] =
                       [type |-> "mouse_down", button |-> "LEFT",
                        x |-> p[1], y |-> p[2], t |-> _get_elapsed_ms]]
    /\ Goto("mouse", "add")
    /\ UNCHANGED <<recVars, mouseVars, screenVars, now, disk, arduino_events,
                   splitVars, discarded, settingsVars, filename, ino, outcome>>

\* _add_event with the event the thread has built, and the return of the
\* callback; _on_click then sets last_mouse_pos.
AddEvent(t) ==
    /\ At(t, "add")
    /\ events' = _add_event(events, is_recording, paused, local[t])
    /\ last_mouse_pos' = IF t = "mouse" THEN <<local[t].x, local[t].y>>
                         ELSE last_mouse_pos
    /\ local' = [local EXCEPT ![t] = <<>>]
    /\ Goto(t, "idle")
    /\ ThreadShort
    /\ UNCHANGED <<start_time, is_recording, paused, current_modifiers,
                   active_modifiers, last_move_time, screenVars, now, disk,
                   arduino_events, splitVars, discarded, settingsVars, filename, ino,
                   outcome>>

KeyboardAdd == AddEvent("keyboard")

MouseAdd == AddEvent("mouse")

\* The menu calls stop_recording.
MenuStop ==
    /\ At("menu", "idle")
    /\ events # <<>>
    /\ Goto("menu", "stop_check")
    /\ UNCHANGED <<recVars, mouseVars, screenVars, now, disk, arduino_events,
                   splitVars, local, discarded, settingsVars, filename, ino, outcome>>

\* stop_recording: the test of is_recording.
StopCheck(t) ==
    /\ At(t, "stop_check")
    /\ Goto(t, IF is_recording THEN "stop_mark" ELSE "idle")
    /\ UNCHANGED <<recVars, mouseVars, screenVars, now, disk, arduino_events,
                   splitVars, local, discarded, settingsVars, filename, ino, outcome>>

\* stop_recording: the releases and the stop marker.
StopMark(t) ==
    /\ At(t, "stop_mark")
    /\ \E order \in Orders(current_modifiers) :
          events' = _add_event(ReleaseAll(events, order), is_recording, paused,
                               StopEvent)
    /\ Goto(t, "stop_flags")
    /\ ThreadShort
    /\ UNCHANGED <<start_time, is_recording, paused, current_modifiers,
                   active_modifiers, mouseVars, screenVars, now, disk,
                   arduino_events, splitVars, local, discarded, settingsVars, filename,
                   ino, outcome>>

\* stop_recording: the flags are cleared.
StopFlags(t) ==
    /\ At(t, "stop_flags")
    /\ is_recording' = FALSE
    /\ paused' = FALSE
    /\ Goto(t, "idle")
    /\ UNCHANGED <<events, start_time, current_modifiers, active_modifiers,
                   mouseVars, screenVars, now, disk, arduino_events,
                   splitVars, local, discarded, settingsVars, filename, ino, outcome>>

Stoppers == {"keyboard", "menu"}

StopChecks == \E t \in Stoppers : StopCheck(t)

StopMarks == \E t \in Stoppers : StopMark(t)

StopFlagsCleared == \E t \in Stoppers : StopFlags(t)

NextThreads ==
    \/ ThreadStart
    \/ KeyboardPress
    \/ KeyboardRelease
    \/ MouseClick
    \/ KeyboardAdd
    \/ MouseAdd
    \/ MenuStop
    \/ StopChecks
    \/ StopMarks
    \/ StopFlagsCleared
    \/ Tick

SpecThreads == Init /\ [][NextThreads]_vars

\* The two listener threads alone: nobody stops the session.
NextCallbacks ==
    \/ ThreadStart
    \/ KeyboardType
    \/ KeyboardRelease
    \/ MouseClick
    \/ KeyboardAdd
    \/ MouseAdd
    \/ Tick

SpecCallbacks == Init /\ [][NextCallbacks]_vars

\* No thread is inside a callback or inside stop_recording.
AllIdle == \A t \in Threads : At(t, "idle")

\* The last event of the identifier in the events says the key is down.
RECURSIVE LastIsDown(_, _)
LastIsDown(evs, id) ==
    IF evs = <<>> THEN FALSE
    ELSE LET e == evs[Len(evs)]
         IN  IF e.type \in {"key_down", "key_up"} /\ e.key = id
             THEN e.type = "key_down"
             ELSE LastIsDown(SubSeq(evs, 1, Len(evs) - 1), id)

\* C12: under every interleaving of the keyboard and pointer callbacks the
\* events appended within one session are in non-decreasing elapsed_ms
\* order, so that every delay computed at finalisation is non-negative, and
\* between callbacks the SHIFT flag agrees with the down and up events
\* recorded.
C12_OrderedUnderInterleaving ==
    LET evs == Session(events)
    IN  /\ \A i \in 1..Len(evs) - 1 : evs[i].t <= evs[i + 1].t
        /\ \A i \in 1..Len(evs) :
              DelayLoop(evs, 0)[i].delay >= 0
        /\ (AllIdle /\ is_recording) =>
              (active_modifiers.SHIFT <=> LastIsDown(evs, "SHIFT_LEFT"))

\* C13: under every interleaving of stop calls, from ESC on the keyboard
\* thread and from the menu thread, with record callbacks, the timeline of
\* a session contains one stop marker at most, and exactly one once it is
\* stopped, no event is appended after the marker, and a stop call on a
\* stopped recorder changes nothing.
C13_StopOnceNoRace ==
    LET evs == Session(events)
        stops == {i \in 1..Len(evs) : evs[i].type = "stop"}
    IN  /\ Cardinality(stops) <= 1
        /\ \A i \in stops : i = Len(evs)
        /\ (~is_recording /\ AllIdle /\ evs # <<>>) => Cardinality(stops) = 1

(***************************************************************************)
(* Properties of finalisation and export (SpecFile).                       *)
(***************************************************************************)
\* The elapsed time of the event before position i (0 before the first).
PrevElapsed(evs, i) == IF i = 1 THEN 0 ELSE evs[i - 1].t

\* The delays of a sequence of events or instructions.
Delays(seq) == [i \in 1..Len(seq) |-> seq[i].delay]

\* C4: in the file save_recording writes, each event's delay is its elapsed
\* time minus the previous event's elapsed time (the first: its own elapsed
\* time), every delay is a non-negative integer, the delays sum to the last
\* event's elapsed time, and the metadata duration_ms equals that value.
C4_FinalisedDelays ==
    disk # <<>> =>
        LET saved == disk[1].events
            last == saved[Len(saved)].t
        IN  /\ \A i \in 1..Len(saved) :
                  /\ saved[i].delay = saved[i].t - PrevElapsed(saved, i)
                  /\ saved[i].delay \in Nat
            /\ SumSeq(Delays(saved)) = last
            /\ disk[1].metadata.duration_ms = last

\* An export step taken while the file on disk is the saved form of the
\* timeline in memory.
ExportsSavedTimeline ==
    /\ arduino_events' # arduino_events
    /\ disk # <<>>
    /\ disk[1].events = DelayLoop(events, 0)

\* C5: exporting the in-memory timeline after record, stop and save yields
\* instructions with the same delays as exporting after record, stop, save
\* and load, that is, as compiling the events of the saved file.
C5_ExportUsesFinalisedDelays ==
    [][ExportsSavedTimeline =>
        Delays(arduino_events'[1]) = Delays(Compile(disk[1].events))]_vars


(***************************************************************************)
(* Direct calls of the motion decomposer.                                   *)
(***************************************************************************)
SplitArgs ==
    {<<dx, dy, max_step>> : dx \in -MaxMove..MaxMove, dy \in -MaxMove..MaxMove,
                            max_step \in 1..MaxStepArg}
    \cup {<<300, 0, MaxStep>>, <<-300, 200, MaxStep>>, <<127, -128, MaxStep>>,
          <<0, 254, MaxStep>>}

InitSplit ==
    /\ Init!1 /\ Init!2 /\ Init!3 /\ Init!4 /\ Init!5 /\ Init!6 /\ Init!7
    /\ Init!8 /\ Init!9 /\ Init!10 /\ Init!11 /\ Init!12 /\ Init!13
    /\ Init!16 /\ Init!17 /\ Init!18 /\ Init!19 /\ Init!20
    /\ Init!21 /\ Init!22 /\ Init!23 /\ Init!24
    /\ split_call \in SplitArgs
    /\ split_moves = <<>>

SplitCall ==
    /\ split_call # <<>>
    /\ split_moves = <<>>
    /\ split_moves' = <<_split_mouse_move(split_call[1], split_call[2],
                                          split_call[3])>>
    /\ UNCHANGED <<recVars, mouseVars, screenVars, now, disk, arduino_events,
                   split_call, auxVars, ino, outcome>>

NextSplit == SplitCall

SpecSplit == InitSplit /\ [][NextSplit]_vars

\* The dx (axis 1) or dy (axis 2) components of a list of moves.
Axis(moves, a) == [i \in 1..Len(moves) |-> IF a = 1 THEN moves[i].dx
                                            ELSE moves[i].dy]

\* C2: the steps _split_mouse_move(dx, dy, maxStep) returns have dx
\* components that sum to dx and dy components that sum to dy, every
\* component has absolute value <= maxStep, and the result is empty when
\* dx = 0 and dy = 0.
C2_SplitSumsAndBounds ==
    split_moves # <<>> =>
        LET moves == split_moves[1]
            dx == split_call[1]
            dy == split_call[2]
            maxStep == split_call[3]
        IN  /\ SumSeq(Axis(moves, 1)) = dx
            /\ SumSeq(Axis(moves, 2)) = dy
            /\ \A i \in 1..Len(moves) :
                  Abs(moves[i].dx) <= maxStep /\ Abs(moves[i].dy) <= maxStep
            /\ (dx = 0 /\ dy = 0) => moves = <<>>

\* C2 witness: a call with both axes non-zero, of opposite signs, that
\* needed several steps has returned.
C2_Witness ==
    /\ split_moves # <<>>
    /\ split_call[1] < 0 /\ split_call[2] > 0
    /\ Len(split_moves[1]) >= 3

\* The number of steps of one axis: the value over maxStep, rounded up.
StepCount(value, maxStep) == (Abs(value) + maxStep - 1) \div maxStep

Sign(value) == IF value > 0 THEN 1 ELSE IF value < 0 THEN -1 ELSE 0

\* C3: along each axis every step but the last has magnitude exactly
\* maxStep, the last carries what remains, all have the sign of the input
\* (300 with maxStep 127 gives 127, 127, 46); the axes are paired by
\* position, the shorter padded with 0, so the result is as long as the
\* longer axis.
C3_GreedyPairedSteps ==
    split_moves # <<>> =>
        LET moves == split_moves[1]
            maxStep == split_call[3]
            Greedy(a) ==
                LET value == split_call[a]
                    n == StepCount(value, maxStep)
                    steps == Axis(moves, a)
                IN  \A i \in 1..Len(moves) :
                        steps[i] =
                            IF i < n THEN Sign(value) * maxStep
                            ELSE IF i = n
                                 THEN Sign(value)
                                      * (Abs(value) - (n - 1) * maxStep)
                                 ELSE 0
        IN  /\ Len(moves) = Max(StepCount(split_call[1], maxStep),
                                StepCount(split_call[2], maxStep))
            /\ Greedy(1)
            /\ Greedy(2)
            /\ split_call = <<300, 0, MaxStep>> =>
                   moves = <<[dx |-> 127, dy |-> 0], [dx |-> 127, dy |-> 0],
                             [dx |-> 46, dy |-> 0]>>

\* C3 witness: a call whose shorter axis is padded with 0 has returned its
\* three steps.
C3_Witness ==
    /\ split_moves # <<>>
    /\ split_call = <<-300, 200, MaxStep>>
    /\ Len(split_moves[1]) = 3
    /\ split_moves[1][3] = [dx |-> -46, dy |-> 0]


(***************************************************************************)
(* Compilation of loaded timelines: a file holding a drawn timeline has    *)
(* been saved and loaded, and is exported.                                 *)
(***************************************************************************)
Payloads ==
    { [type |-> "key_down", key |-> "a"],
      [type |-> "key_up", key |-> "CTRL_LEFT"],
      [type |-> "key_down", key |-> "KEYCODE_VK"],
      [type |-> "mouse_move", dx |-> 300, dy |-> -5],
      [type |-> "mouse_move", dx |-> 0, dy |-> 0],
      [type |-> "mouse_down", button |-> "RIGHT"],
      [type |-> "mouse_scroll", dx |-> 0, dy |-> -1],
      [type |-> "mouse_scroll", dx |-> 1, dy |-> 0],
      [type |-> "mouse_scroll", dx |-> 0, dy |-> 2],
      [type |-> "pause"] }

\* Milliseconds between two events of a drawn timeline.
Gaps == {0, NoiseThreshold - 1, NoiseThreshold}

\* The timeline with the given payloads, each gap after the event before.
RECURSIVE Stamp(_, _, _)
Stamp(payloads, gaps, elapsed) ==
    IF payloads = <<>>
    THEN <<>>
    ELSE <<Put(payloads[1], "t", elapsed + gaps[1])>>
         \o Stamp(Tail(payloads), Tail(gaps), elapsed + gaps[1])

DrawnTimelines ==
    UNION { {Stamp(ps, gs, 0) : ps \in [1..n -> Payloads], gs \in [1..n -> Gaps]}
            : n \in 1..MaxCompileLen }

\* The timeline of the end-to-end scenario.
ScenarioTimeline ==
    << [type |-> "start", t |-> 0],
       [type |-> "key_down", key |-> "a", t |-> 100],
       [type |-> "key_up", key |-> "a", t |-> 150],
       [type |-> "mouse_move", dx |-> 300, dy |-> 0, t |-> 400],
       [type |-> "stop", t |-> 450, duration |-> 450] >>

InitCompile ==
    /\ Init!2 /\ Init!3 /\ Init!4 /\ Init!5 /\ Init!6 /\ Init!7 /\ Init!8
    /\ Init!9 /\ Init!10 /\ Init!11 /\ Init!13 /\ Init!14 /\ Init!15
    /\ Init!16 /\ Init!17 /\ Init!18 /\ Init!19 /\ Init!20
    /\ Init!21 /\ Init!22 /\ Init!23 /\ filename = <<FileName>>
    /\ \E timeline \in DrawnTimelines \cup {ScenarioTimeline} :
          /\ disk = <<SavedFile(timeline, screen_width, screen_height)>>
          /\ events = disk[1].events

NextCompile == export_for_arduino(TRUE, TRUE)

SpecCompile == InitCompile /\ [][NextCompile]_vars


(***************************************************************************)
(* Properties of the compiler (SpecCompile).                               *)
(***************************************************************************)
\* The delay the post-pass leaves of a delay d.
Denoised(d) == IF d < 10 THEN 0 ELSE d

\* The instruction has the kind of the event it is compiled from.
SameKind(instr, event) ==
    \/ instr.type = "KEY_PRESS" /\ event.type = "key_down"
    \/ instr.type = "KEY_RELEASE" /\ event.type = "key_up"
    \/ instr.type = "MOUSE_PRESS" /\ event.type = "mouse_down"
    \/ instr.type = "MOUSE_RELEASE" /\ event.type = "mouse_up"
    \/ instr.type = "MOUSE_SCROLL" /\ event.type = "mouse_scroll"
    \/ instr.type = "MOUSE_MOVE" /\ event.type = "mouse_move"

\* The instruction carries exactly the delay of the event.
CarriesDelay(instr, event) ==
    instr.type # "MOUSE_MOVE" => instr.delay = event.delay

\* The instruction carries the delay of the event as the post-pass leaves it.
CarriesDenoisedDelay(instr, event) ==
    instr.type # "MOUSE_MOVE" => instr.delay = Denoised(event.delay)

\* The instructions can be assigned, in order, to source events of their
\* kind whose delay they carry (Exact) or carry denoised: a key, button or
\* scroll event is the source of at most one instruction, a pointer-move of
\* several.
RECURSIVE InSourceOrder(_, _, _)
InSourceOrder(instrs, evs, exact) ==
    IF instrs = <<>> THEN TRUE
    ELSE IF evs = <<>> THEN FALSE
    ELSE \/ /\ SameKind(instrs[1], evs[1])
            /\ IF exact THEN CarriesDelay(instrs[1], evs[1])
               ELSE CarriesDenoisedDelay(instrs[1], evs[1])
            /\ InSourceOrder(Tail(instrs),
                             IF instrs[1].type = "MOUSE_MOVE" THEN evs
                             ELSE Tail(evs),
                             exact)
         \/ InSourceOrder(instrs, Tail(evs), exact)

\* The instructions of the end-to-end scenario.
ScenarioInstructions ==
    << [delay |-> 100, type |-> "KEY_PRESS", key |-> <<"'", "a", "'">>],
       [delay |-> 50, type |-> "KEY_RELEASE", key |-> <<"'", "a", "'">>],
       [delay |-> 250, type |-> "MOUSE_MOVE", dx |-> 127, dy |-> 0],
       [delay |-> 0, type |-> "MOUSE_MOVE", dx |-> 127, dy |-> 0],
       [delay |-> 0, type |-> "MOUSE_MOVE", dx |-> 46, dy |-> 0] >>

IsScenario == events = DelayLoop(ScenarioTimeline, 0)

\* C6 as stated: the instructions are in the order of their source events,
\* each key, button and scroll instruction carries its source event's
\* delay_ms, control markers produce no instruction, and the scenario
\* timeline compiles to exactly the scenario instructions.
C6_Original ==
    arduino_events # <<>> =>
        /\ InSourceOrder(arduino_events[1], events, TRUE)
        /\ IsScenario => arduino_events[1] = ScenarioInstructions

\* C6 as amended: the instructions are in the order of their source events,
\* each key, button and scroll instruction carries its source event's
\* delay_ms when that is 10 ms or more and delay 0 when it is less, control
\* markers produce no instruction, and the scenario timeline compiles to
\* exactly the scenario instructions.
C6_OrderedDenoisedDelays ==
    arduino_events # <<>> =>
        /\ InSourceOrder(arduino_events[1], events, FALSE)
        /\ IsScenario => arduino_events[1] = ScenarioInstructions

\* C6 witness: the scenario timeline has been exported.
C6_Witness ==
    /\ IsScenario
    /\ arduino_events = <<ScenarioInstructions>>

\* The instructions of one type, in order.
RECURSIVE OfType(_, _)
OfType(seq, type) ==
    IF seq = <<>> THEN <<>>
    ELSE (IF seq[1].type = type THEN <<seq[1]>> ELSE <<>>)
         \o OfType(Tail(seq), type)

\* The MOUSE_MOVE instructions the pointer-moves of a timeline expand into:
\* the decomposer's steps in order, the first with the delay first(d) of
\* the event's delay d, the others with delay 0.
RECURSIVE ExpectedMoves(_, _)
ExpectedMoves(evs, exact) ==
    IF evs = <<>> THEN <<>>
    ELSE (IF evs[1].type = "mouse_move"
          THEN LET steps == _split_mouse_move(evs[1].dx, evs[1].dy, 127)
               IN  [i \in 1..Len(steps) |->
                       [delay |-> IF i > 1 THEN 0
                                  ELSE IF exact THEN evs[1].delay
                                  ELSE Denoised(evs[1].delay),
                        type |-> "MOUSE_MOVE",
                        dx |-> steps[i].dx, dy |-> steps[i].dy]]
          ELSE <<>>)
         \o ExpectedMoves(Tail(evs), exact)

MovesInRange(instrs) ==
    \A i \in 1..Len(instrs) :
        instrs[i].type = "MOUSE_MOVE" =>
            /\ instrs[i].dx \in -127..127
            /\ instrs[i].dy \in -127..127

\* C7 as stated: every MOUSE_MOVE instruction has dx and dy within
\* [-127, 127]; a pointer-move expands into the decomposer's steps in
\* order, the first carrying the event's delay and the later ones delay 0;
\* a pointer-move with dx = 0 and dy = 0 produces no instruction.
C7_Original ==
    arduino_events # <<>> =>
        /\ MovesInRange(arduino_events[1])
        /\ OfType(arduino_events[1], "MOUSE_MOVE") = ExpectedMoves(events, TRUE)

\* C7 as amended: every MOUSE_MOVE instruction has dx and dy within
\* [-127, 127]; a pointer-move expands into the decomposer's steps in
\* order, the first carrying the event's delay when that is 10 ms or more
\* and delay 0 when it is less, the later ones delay 0; a pointer-move with
\* dx = 0 and dy = 0 produces no instruction.
C7_BoundedMovesFirstDelayed ==
    arduino_events # <<>> =>
        /\ MovesInRange(arduino_events[1])
        /\ OfType(arduino_events[1], "MOUSE_MOVE") = ExpectedMoves(events, FALSE)

\* C7 witness: a timeline of a zero pointer-move and a pointer-move of 300
\* with delay 10 has been exported as three sub-moves with delays 10, 0, 0.
C7_Witness ==
    /\ arduino_events # <<>>
    /\ Len(events) = 2
    /\ events[1].type = "mouse_move" /\ events[1].dx = 0 /\ events[1].dy = 0
    /\ events[2].type = "mouse_move" /\ events[2].dx = 300
    /\ events[2].delay = 10
    /\ Len(arduino_events[1]) = 3
    /\ Delays(arduino_events[1]) = <<10, 0, 0>>

\* C8: after the post-pass every instruction whose delay before the pass
\* is in [0, 10) has delay 0, and every instruction whose delay before the
\* pass is 10 or more is unchanged (exactly 10 is preserved); the pass
\* neither adds nor removes an instruction.
C8_DelayDenoising ==
    arduino_events # <<>> =>
        LET before == CompileLoop(events)
            after == arduino_events[1]
        IN  /\ Len(after) = Len(before)
            /\ \A i \in 1..Len(before) :
                  /\ before[i].delay \in 0..9 => after[i].delay = 0
                  /\ before[i].delay >= 10 => after[i] = before[i]

\* C8 witness: an exported program holds an instruction whose delay of 9
\* was rewritten to 0 and one whose delay of exactly 10 was kept.
C8_Witness ==
    /\ arduino_events # <<>>
    /\ Len(arduino_events[1]) = 2
    /\ Delays(CompileLoop(events)) = <<9, 10>>
    /\ Delays(arduino_events[1]) = <<0, 10>>

\* The key instructions of a list, in order.
KeyInstructions(instrs) ==
    SelectSeq(instrs, LAMBDA i : i.type \in {"KEY_PRESS", "KEY_RELEASE"})

\* The key has an entry in the Keycode Table.
HasTableEntry(key) == key \in DOMAIN key_map

\* A device character literal: quotes around at least one character.
IsCharLiteral(k) == Len(k) >= 3 /\ k[1] = "'" /\ k[Len(k)] = "'"

\* The key instructions are those of the key events, in order: a constant
\* of the table, a character literal, or nothing.
RECURSIVE KeysCompiled(_, _)
KeysCompiled(instrs, evs) ==
    IF evs = <<>> THEN instrs = <<>>
    ELSE IF evs[1].type \notin {"key_down", "key_up"}
    THEN KeysCompiled(instrs, Tail(evs))
    ELSE IF HasTableEntry(evs[1].key) \/ StrLen(evs[1].key) = 1
    THEN /\ instrs # <<>>
         /\ SameKind(instrs[1], evs[1])
         /\ IF HasTableEntry(evs[1].key)
            THEN instrs[1].key = <<key_map[evs[1].key]>>
            ELSE IsCharLiteral(instrs[1].key)
         /\ KeysCompiled(Tail(instrs), Tail(evs))
    ELSE KeysCompiled(instrs, Tail(evs))

\* C16: for every key_down and key_up event, compile produces the device
\* key constant when the key has a Keycode Table entry, a character literal
\* when it has no entry and is a single character, and no instruction
\* otherwise, after which compilation continues with the next event.
C16_KeyResolution ==
    arduino_events # <<>> =>
        KeysCompiled(KeyInstructions(arduino_events[1]), events)

\* C16 witness: a timeline of a key without table entry that is not a
\* single character and then a character key has been exported as the one
\* character literal.
C16_Witness ==
    /\ arduino_events # <<>>
    /\ Len(events) = 2
    /\ events[1].type = "key_down" /\ events[1].key = "KEYCODE_VK"
    /\ events[2].type = "key_down" /\ events[2].key = "a"
    /\ Len(arduino_events[1]) = 1
    /\ arduino_events[1][1].key = <<"'", "a", "'">>

(***************************************************************************)
(* Export of files that were edited by hand: load_recording accepts any    *)
(* JSON document.  A field whose value is not a number is left out of the  *)
(* event and named in its "not_int" field.                                 *)
(***************************************************************************)
MaxEditedLen == 2     \* longest edited file that is loaded and exported

EditedEvents ==
    { [type |-> "key_down", key |-> "a", delay |-> 20],
      [type |-> "mouse_down", button |-> "LEFT", delay |-> 0],
      [type |-> "mouse_move", dx |-> 10, dy |-> 0, delay |-> 15],
      [type |-> "key_down", key |-> "KEYCODE_VK", delay |-> 5],
      [type |-> "gesture", delay |-> 5],
      [type |-> "key_up", delay |-> 5],
      [type |-> "key_down", key |-> "a"],
      [type |-> "mouse_move", delay |-> 5],
      [type |-> "key_down", key |-> "a", not_int |-> {"delay"}],
      [type |-> "mouse_move", dy |-> 0, delay |-> 5, not_int |-> {"dx"}] }

EditedFiles ==
    UNION { [1..n -> EditedEvents] : n \in 1..MaxEditedLen }

InitEdited ==
    /\ Init!1 /\ Init!2 /\ Init!3 /\ Init!4 /\ Init!5 /\ Init!6 /\ Init!7
    /\ Init!8 /\ Init!9 /\ Init!10 /\ Init!11 /\ Init!13 /\ Init!14 /\ Init!15
    /\ Init!16 /\ Init!17 /\ Init!18 /\ Init!19 /\ Init!20
    /\ Init!21 /\ Init!22 /\ Init!23 /\ Init!24
    /\ \E file \in EditedFiles : disk = <<[events |-> file]>>

NextEdited ==
    \/ LoadStopped
    \/ ExportStopped

SpecEdited == InitEdited /\ [][NextEdited]_vars

\* An event the compiler can map: a known kind, a key that resolves, and
\* number fields that are numbers.
Mappable(event) ==
    /\ NotInt(event) = {}
    /\ \/ event.type \in {"mouse_move", "mouse_down", "mouse_up",
                          "mouse_scroll"}
       \/ /\ event.type \in {"key_down", "key_up"}
          /\ "key" \in DOMAIN event
          /\ (HasTableEntry(event.key) \/ StrLen(event.key) = 1)

\* C17: compile never aborts on a single bad event: an event that cannot
\* be mapped (unmappable key, unknown kind, missing or malformed payload or
\* delay field) is skipped and every later event is still compiled, so the
\* output is that of the timeline without its bad events.
C17_NeverAborts ==
    /\ outcome # "raised"
    /\ arduino_events # <<>> =>
           arduino_events[1] = Compile(SelectSeq(events, Mappable))

(***************************************************************************)
(* Rendering: a file holding a drawn timeline has been saved and loaded,   *)
(* and is exported.                                                        *)
(***************************************************************************)
MaxRenderLen == 2     \* longest drawn timeline that is rendered

RenderKeys == {"a", "'", "\"", "\\", "\n", "ESC"}

RenderPayloads ==
    { [type |-> "key_down", key |-> k] : k \in RenderKeys }
    \cup { [type |-> "key_up", key |-> k] : k \in RenderKeys }
    \cup { [type |-> "mouse_down", button |-> "RIGHT"],
           [type |-> "mouse_up", button |-> "RIGHT"],
           [type |-> "mouse_move", dx |-> 300, dy |-> -5],
           [type |-> "mouse_scroll", dx |-> 0, dy |-> -1] }

RenderGaps == {0, NoiseThreshold}

RenderTimelines ==
    UNION { {Stamp(ps, gs, 0) : ps \in [1..n -> RenderPayloads],
                                gs \in [1..n -> RenderGaps]}
            : n \in 1..MaxRenderLen }

InitRender ==
    /\ Init!2 /\ Init!3 /\ Init!4 /\ Init!5 /\ Init!6 /\ Init!7 /\ Init!8
    /\ Init!9 /\ Init!10 /\ Init!11 /\ Init!13 /\ Init!14 /\ Init!15
    /\ Init!16 /\ Init!17 /\ Init!18 /\ Init!19 /\ Init!20
    /\ Init!21 /\ Init!22 /\ Init!23 /\ filename = <<FileName>>
    /\ \E timeline \in RenderTimelines :
          /\ disk = <<SavedFile(timeline, screen_width, screen_height)>>
          /\ events = disk[1].events

NextRender == export_for_arduino(TRUE, TRUE)

SpecRender == InitRender /\ [][NextRender]_vars

\* The statement is the native call of the instruction.
NativeCall(stmt, instr) ==
    \/ instr.type = "KEY_PRESS"
       /\ stmt.call \in {"Keyboard.write", "Keyboard.press"}
    \/ instr.type = "KEY_RELEASE" /\ stmt.call = "Keyboard.release"
    \/ instr.type = "MOUSE_MOVE" /\ stmt.call = "Mouse.move"
    \/ instr.type = "MOUSE_PRESS" /\ stmt.call = "Mouse.press"
    \/ instr.type = "MOUSE_RELEASE" /\ stmt.call = "Mouse.release"
    \/ instr.type = "MOUSE_SCROLL" /\ stmt.call = "Mouse.move"

\* The statements are, instruction by instruction, a delay(d) statement
\* exactly when the delay d is greater than 0 and then the native call of
\* the instruction; with silent releases, the release of a character
\* literal has no call.
RECURSIVE Rendered(_, _, _)
Rendered(stmts, instrs, silentReleases) ==
    IF instrs = <<>> THEN stmts = <<>>
    ELSE LET d == instrs[1].delay
             n == IF d > 0 THEN 1 ELSE 0
             silent == /\ silentReleases
                       /\ instrs[1].type = "KEY_RELEASE"
                       /\ IsCharLiteral(instrs[1].key)
             m == IF silent THEN n ELSE n + 1
         IN  /\ Len(stmts) >= m
             /\ d > 0 => stmts[1].call = "delay" /\ stmts[1].params = <<d>>
             /\ ~silent => NativeCall(stmts[n + 1], instrs[1])
             /\ Rendered(SubSeq(stmts, m + 1, Len(stmts)), Tail(instrs),
                         silentReleases)

\* C18 as stated: for each instruction the renderer emits a delay(d)
\* statement if and only if the instruction's delay_ms is greater than 0,
\* immediately followed by the instruction's native call; every
\* instruction renders its native call.
C18_Original ==
    ino # <<>> => Rendered(ino[1].executeEvents, arduino_events[1], FALSE)

\* C18 as amended: for each instruction the renderer emits a delay(d)
\* statement if and only if the instruction's delay_ms is greater than 0,
\* immediately followed by the instruction's native call; every
\* instruction renders its native call, except the release of a character
\* literal, which renders no call.
C18_WaitThenCall ==
    ino # <<>> => Rendered(ino[1].executeEvents, arduino_events[1], TRUE)

\* C18 witness: a press with delay 10 and a release with delay 0 of ESC
\* have been rendered as a wait, the press and the release.
C18_Witness ==
    /\ ino # <<>>
    /\ Delays(arduino_events[1]) = <<10, 0>>
    /\ Len(ino[1].executeEvents) = 3
    /\ ino[1].executeEvents[1] = Stmt("delay", <<10>>)
    /\ ino[1].executeEvents[2].call = "Keyboard.press"
    /\ ino[1].executeEvents[3].call = "Keyboard.release"

\* The character a C escape sequence \x denotes.
CEscapes == { <<"n", "\n">>, <<"r", "\r">>, <<"t", "\t">>, <<"\\", "\\">>,
              <<"'", "'">>, <<"\"", "\"">>, <<"a", "\\a">>, <<"b", "\\b">>,
              <<"f", "\\f">>, <<"v", "\\v">> }

\* The character a C character literal denotes ("" when it is not one).
CDenotes(lit) ==
    IF ~IsCharLiteral(lit) THEN ""
    ELSE LET inner == SubSeq(lit, 2, Len(lit) - 1)
         IN  IF Len(inner) = 1 /\ inner[1] \notin {"'", "\\", "\n", "\r", "\t"}
             THEN inner[1]
             ELSE IF Len(inner) = 2 /\ inner[1] = "\\"
             THEN MapGet(CEscapes, inner[2], "")
             ELSE ""

\* The literals of the Keyboard.write statements, in order.
WrittenLiterals(stmts) ==
    LET writes == SelectSeq(stmts, LAMBDA st : st.call = "Keyboard.write")
    IN  [i \in 1..Len(writes) |-> writes[i].params[1]]

\* The single-character keys of the key_down events, in order.
PressedCharacters(evs) ==
    LET downs == SelectSeq(evs, LAMBDA e : e.type = "key_down"
                                             /\ StrLen(e.key) = 1)
    IN  [i \in 1..Len(downs) |-> downs[i].key]

\* C19: for every single-character key c, the key-press instruction
\* renders as exactly one Keyboard.write call whose C character literal
\* denotes c, newline, carriage return, tab, backslash, single quote and
\* double quote being written as their C escapes.
C19_LiteralDenotesKey ==
    ino # <<>> =>
        LET written == WrittenLiterals(ino[1].executeEvents)
            pressed == PressedCharacters(events)
        IN  /\ Len(written) = Len(pressed)
            /\ \A i \in 1..Len(pressed) :
                  /\ CDenotes(written[i]) = pressed[i]
                  /\ pressed[i] \in {"\n", "\r", "\t", "\\", "'", "\""} =>
                         Len(written[i]) = 4 /\ written[i][2] = "\\"

\* The statements of setup() that release the keys and the buttons.
Releases(setup) ==
    {i \in 1..Len(setup) :
        setup[i].call \in {"Keyboard.releaseAll", "Mouse.release"}}

\* The statement of setup() that runs the recorded instructions.
ReplayAt(setup) == CHOOSE i \in 1..Len(setup) : setup[i].call = "executeEvents"

\* setup() releases all keys and all three buttons.
ReleasesEverything(setup) ==
    /\ \E i \in Releases(setup) : setup[i].call = "Keyboard.releaseAll"
    /\ \A b \in {"MOUSE_LEFT", "MOUSE_RIGHT", "MOUSE_MIDDLE"} :
          \E i \in Releases(setup) :
              setup[i].call = "Mouse.release" /\ setup[i].params = <<b>>

\* C20 as stated: in the generated program the release of all keys and of
\* all pointer buttons is executed before the first recorded instruction
\* of executeEvents runs.
C20_Original ==
    ino # <<>> =>
        /\ ReleasesEverything(ino[1].setup)
        /\ \A i \in Releases(ino[1].setup) : i < ReplayAt(ino[1].setup)

\* C20 as amended: in the generated program the release of all keys and of
\* all pointer buttons is executed after the last recorded instruction of
\* executeEvents has run.
C20_ReleaseAfterReplay ==
    ino # <<>> =>
        /\ ReleasesEverything(ino[1].setup)
        /\ \A i \in Releases(ino[1].setup) : i > ReplayAt(ino[1].setup)

\* C20 witness: a program with recorded instructions has been generated.
C20_Witness ==
    /\ ino # <<>>
    /\ Len(ino[1].executeEvents) >= 2
    /\ Len(ino[1].setup) = 8

(***************************************************************************)
(* Scroll instructions (SpecCompile).                                      *)
(***************************************************************************)
\* The scroll instructions the events should compile to, in order: one for
\* each mouse_scroll event whose vertical delta times 3 is not 0, with the
\* delay of the event (exact) or that delay as the post-pass leaves it.
RECURSIVE ExpectedScrolls(_, _)
ExpectedScrolls(evs, exact) ==
    IF evs = <<>> THEN <<>>
    ELSE (IF evs[1].type = "mouse_scroll" /\ evs[1].dy * 3 # 0
          THEN <<[delay |-> IF exact THEN evs[1].delay
                            ELSE Denoised(evs[1].delay),
                  type |-> "MOUSE_SCROLL", amount |-> evs[1].dy * 3]>>
          ELSE <<>>)
         \o ExpectedScrolls(Tail(evs), exact)

NoZeroScroll(instrs) ==
    \A i \in 1..Len(instrs) :
        instrs[i].type = "MOUSE_SCROLL" => instrs[i].amount # 0

\* C27 as stated: a scroll event compiles to one MOUSE_SCROLL instruction
\* whose amount is the vertical delta times 3 and which carries the event's
\* delay; a scroll event whose amount would be 0 produces no instruction,
\* so no MOUSE_SCROLL instruction has amount 0.
C27_Original ==
    arduino_events # <<>> =>
        /\ OfType(arduino_events[1], "MOUSE_SCROLL")
               = ExpectedScrolls(events, TRUE)
        /\ NoZeroScroll(arduino_events[1])

\* C27 as amended: a scroll event compiles to one MOUSE_SCROLL instruction
\* whose amount is the vertical delta times 3 and whose delay is the
\* event's delay when that is 10 ms or more and 0 when it is less; a scroll
\* event whose amount would be 0 produces no instruction, so no
\* MOUSE_SCROLL instruction has amount 0.
C27_ScrollTimesThree ==
    arduino_events # <<>> =>
        /\ OfType(arduino_events[1], "MOUSE_SCROLL")
               = ExpectedScrolls(events, FALSE)
        /\ NoZeroScroll(arduino_events[1])

\* C27 witness: a scroll of delta 0 and a scroll of delta -1 with delay 10
\* have been exported as the single instruction of amount -3 and delay 10.
C27_Witness ==
    /\ arduino_events # <<>>
    /\ Len(events) = 2
    /\ events[1].type = "mouse_scroll" /\ events[1].dy = 0
    /\ events[2].type = "mouse_scroll" /\ events[2].dy = -1
    /\ events[2].delay = 10
    /\ arduino_events[1]
           = <<[delay |-> 10, type |-> "MOUSE_SCROLL", amount |-> -3]>>

(***************************************************************************)
(* The hotkeys: one session at a keyboard with ESC, F1, a modifier and a   *)
(* character key, next to the menu's pause and stop.  The listeners run    *)
(* from start_recording to stop_recording, so the callbacks arrive while   *)
(* is_recording holds, paused or not.                                      *)
(***************************************************************************)
MaxHotkeyEvents == 4   \* longest timeline of the hotkey session

HotkeyShort == Len(events') <= MaxHotkeyEvents

Hotkeys == {KeyObj("esc"), KeyObj("f1"), KeyObj("shift_l"), CharObj("a")}

\* The keyboard listener's on_press callback, its early return included.
on_press(key) ==
    IF ~is_recording \/ paused THEN Discard ELSE _on_key_press(key)

\* The keyboard listener's on_release callback, its early return included.
on_release(key) ==
    IF ~is_recording \/ paused THEN Discard ELSE _on_key_release(key)

HotkeyStart == events = <<>> /\ start_recording

HotkeyPress ==
    /\ is_recording
    /\ \E key \in Hotkeys : on_press(key)
    /\ HotkeyShort

HotkeyRelease ==
    /\ is_recording
    /\ \E key \in Hotkeys : on_release(key)
    /\ HotkeyShort

HotkeyMenuPause == pause_recording /\ HotkeyShort

HotkeyMenuStop == stop_recording /\ HotkeyShort

NextHotkeys ==
    \/ HotkeyStart
    \/ HotkeyPress
    \/ HotkeyRelease
    \/ HotkeyMenuPause
    \/ HotkeyMenuStop
    \/ Tick

SpecHotkeys == Init /\ [][NextHotkeys]_vars

\* C28: a press of F1 during an active session toggles the recorder: it
\* pauses a session that is Recording and continues one that is Paused.
C28_F1Toggles ==
    [][(is_recording /\ on_press(KeyObj("f1")))
          => is_recording' /\ paused' = ~paused]_vars

\* C29: a press of ESC during an active session, Recording or Paused, stops
\* the recording, and no press of ESC or F1 is recorded as a key_down
\* event.
C29_EscStops ==
    [][/\ (is_recording /\ on_press(KeyObj("esc"))) => ~is_recording'
       /\ \A i \in 1..Len(events') :
             events'[i].type = "key_down" => events'[i].key \notin {"ESC", "F1"}
      ]_vars

(***************************************************************************)
(* The end of a session (Spec).                                            *)
(***************************************************************************)
\* Every key_down of a modifier in the events has a later key_up of it.
ModifiersReleased(evs) ==
    \A i \in 1..Len(evs) :
        (evs[i].type = "key_down" /\ evs[i].key \in ModifierIds)
        => \E j \in i + 1 .. Len(evs) :
               evs[j].type = "key_up" /\ evs[j].key = evs[i].key

\* C30: every session that is stopped, while Recording or while Paused,
\* ends with a stop marker as the last event of its timeline, and every
\* modifier key_down of the session has a later key_up of that modifier.
C30_StoppedSessionClosed ==
    [][(is_recording /\ ~is_recording') =>
          /\ events' # <<>>
          /\ events'[Len(events')].type = "stop"
          /\ ModifiersReleased(Session(events'))]_vars

(***************************************************************************)
(* Time spent paused: the hotkey session with a clock that moves only      *)
(* while the session is Paused, so that all the time that has passed since *)
(* the start was spent paused.  The session starts at Epoch.               *)
(***************************************************************************)
PausedTick == paused /\ Tick

NextPause ==
    \/ HotkeyStart
    \/ HotkeyPress
    \/ HotkeyRelease
    \/ HotkeyMenuPause
    \/ HotkeyMenuStop
    \/ PausedTick

SpecPause == Init /\ [][NextPause]_vars

\* C26: every event recorded in the session, the resume marker and the
\* events after it included, has for elapsed time the wall-clock time since
\* the start of the recording: the time spent paused is part of it and is
\* never subtracted.
C26_ElapsedIncludesPause ==
    [][is_recording =>
          \A i \in Len(events) + 1 .. Len(events') :
              events'[i].t = now - Epoch]_vars

\* C26 witness: a session recorded at elapsed 0, was paused for some time d
\* and resumed, and the key pressed after the resume is recorded at d.
C26_Witness ==
    /\ RecorderState = "Recording"
    /\ now > Epoch
    /\ Len(events) = 3
    /\ events[1].type = "start" /\ events[1].t = 0
    /\ events[2].type = "resume" /\ events[2].t = now - Epoch
    /\ events[3].type = "key_down" /\ events[3].key = "a"
    /\ events[3].t = now - Epoch

(***************************************************************************)
(* Persistence on a file system that may fail.  The recorder holds the     *)
(* timeline of a stopped session under its automatic name; the file of the *)
(* operator is absent, holds another saved timeline, or holds one whose    *)
(* metadata was edited by hand (a duration_ms that is no number).  Each    *)
(* open, read and write may fail.                                          *)
(***************************************************************************)
MaxFaultLen == 2   \* most events between the markers of the held timeline

FaultPayloads ==
    { [type |-> "key_down", key |-> "a"],
      [type |-> "mouse_down", button |-> "LEFT", x |-> 8, y |-> 3],
      [type |-> "mouse_scroll", x |-> 8, y |-> 3, dx |-> 0, dy |-> -1] }

FaultGaps == {0, NoiseThreshold}

\* start marker, events, stop marker.
Recorded(middle) ==
    <<[type |-> "start", t |-> 0, screen_width |-> 1920,
       screen_height |-> 1080]>>
    \o middle
    \o <<[type |-> "stop",
          t |-> IF middle = <<>> THEN 0 ELSE middle[Len(middle)].t,
          duration |-> IF middle = <<>> THEN 0 ELSE middle[Len(middle)].t]>>

FaultTimelines ==
    UNION { {Recorded(Stamp(ps, gs, 0)) :
                ps \in [1..n -> FaultPayloads], gs \in [1..n -> FaultGaps]}
            : n \in 0..MaxFaultLen }

\* The file another session left: a timeline captured on a smaller screen.
OtherFile == SavedFile(Recorded(<<[type |-> "key_down", key |-> "b", t |-> 0]>>),
                       1280, 720)

\* That file with a duration_ms that is no number.
EditedMetadataFile ==
    [OtherFile EXCEPT !.metadata =
        [total_events |-> 3, screen_width |-> 1280, screen_height |-> 720,
         not_num |-> {"duration_ms"}]]

InitFaults ==
    /\ Init!2 /\ Init!3 /\ Init!4 /\ Init!5 /\ Init!6 /\ Init!7 /\ Init!8
    /\ Init!9 /\ Init!10 /\ Init!11 /\ Init!13 /\ Init!14 /\ Init!15
    /\ Init!16 /\ Init!17 /\ Init!18 /\ Init!19 /\ Init!20
    /\ Init!21 /\ Init!22 /\ Init!23
    /\ events \in FaultTimelines
    /\ filename = <<AutoName>>
    /\ disk \in {<<>>, <<OtherFile>>, <<EditedMetadataFile>>}

FaultySave == \E writable \in BOOLEAN : save_recording(writable)

\* The menu asks for the name of a file that exists.
FaultyLoad == disk # <<>> /\ \E readable \in BOOLEAN : load_recording(readable)

FaultyExport ==
    \E json_writable, ino_writable \in BOOLEAN :
        export_for_arduino(json_writable, ino_writable)

NextFaults == FaultySave \/ FaultyLoad \/ FaultyExport

SpecFaults == InitFaults /\ [][NextFaults]_vars

\* A persistence operation of the step fails: the write of the timeline,
\* of the instruction list or of the program text, or the read of the file.
WriteOrReadFails ==
    \/ save_recording(FALSE)
    \/ \E ino_writable \in BOOLEAN : export_for_arduino(FALSE, ino_writable)
    \/ export_for_arduino(TRUE, FALSE)
    \/ load_recording(FALSE)

\* C23: when a persistence operation fails, the operation reports failure
\* to the caller, and after an operation that reports failure the
\* in-memory timeline, the current filename and the recorder state are
\* what they were before the call.
C23_FailureReportedStateKept ==
    [][/\ WriteOrReadFails => outcome' = "False"
       /\ outcome' = "False"
             => UNCHANGED <<events, filename, is_recording, paused>>]_vars

(***************************************************************************)
(* The round trip through a file.  A recorder that holds the timeline of a *)
(* stopped session saves it; the program is started again, on a machine    *)
(* whose screen may differ, and loads the file; it may save it again.      *)
(***************************************************************************)
\* The sizes screeninfo reports: width, height.
Screens == {<<1920, 1080>>, <<1280, 720>>}

InitRoundTrip ==
    /\ Init!3 /\ Init!4 /\ Init!5 /\ Init!6 /\ Init!7 /\ Init!8
    /\ Init!11 /\ Init!12 /\ Init!13 /\ Init!14 /\ Init!15
    /\ Init!16 /\ Init!17 /\ Init!18 /\ Init!19 /\ Init!20
    /\ Init!21 /\ Init!22 /\ Init!23
    /\ events \in FaultTimelines
    /\ start_time = <<Epoch>>
    /\ filename = <<AutoName>>
    /\ \E screen \in Screens :
          screen_width = screen[1] /\ screen_height = screen[2]

\* The program ends and is started again: EventRecorder() on the screen of
\* the machine; the file stays.
Restart ==
    /\ events' = <<>>
    /\ start_time' = <<>>
    /\ is_recording' = FALSE
    /\ paused' = FALSE
    /\ current_modifiers' = {}
    /\ active_modifiers' = NoModifiers
    /\ last_mouse_pos' = <<0, 0>>
    /\ last_move_time' = 0
    /\ record_mouse_moves' = TRUE
    /\ min_mouse_move' = 5
    /\ mouse_move_interval' = 50
    /\ filename' = <<>>
    /\ \E screen \in Screens :
          screen_width' = screen[1] /\ screen_height' = screen[2]
    /\ outcome' = "None"
    /\ UNCHANGED <<now, disk, arduino_events, splitVars, threadVars,
                   discarded, ino>>

RoundTripSave == save_recording(TRUE)

RoundTripLoad == disk # <<>> /\ load_recording(TRUE)

NextRoundTrip == RoundTripSave \/ RoundTripLoad \/ Restart

SpecRoundTrip == InitRoundTrip /\ [][NextRoundTrip]_vars

\* An event without its delay.
WithoutDelay(event) == [f \in DOMAIN event \ {"delay"} |-> event[f]]

\* The file holds the events with the delay of each after the one before,
\* their count, the elapsed time of the last and the size of the screen.
Holds(file, evs, width, height) ==
    /\ Len(file.events) = Len(evs)
    /\ \A i \in 1..Len(evs) :
          /\ WithoutDelay(file.events[i]) = WithoutDelay(evs[i])
          /\ file.events[i].delay
                 = evs[i].t - (IF i = 1 THEN 0 ELSE evs[i - 1].t)
    /\ file.metadata.total_events = Len(evs)
    /\ file.metadata.duration_ms = evs[Len(evs)].t
    /\ file.metadata.screen_width = width
    /\ file.metadata.screen_height = height

\* C22: save_recording writes the events in order with their kind, elapsed
\* time, payload and delay and the size of the capture screen; a
\* load_recording of that file restores exactly the events written and the
\* screen width and height, and saving the loaded timeline again writes the
\* same events, delays, event count and duration.
C22_SaveLoadRoundTrip ==
    [][/\ save_recording(TRUE)
             => Holds(disk'[1], events, screen_width, screen_height)
       /\ (disk # <<>> /\ load_recording(TRUE))
             => /\ events' = disk[1].events
                /\ screen_width' = disk[1].metadata.screen_width
                /\ screen_height' = disk[1].metadata.screen_height
                /\ Holds(disk[1], events', screen_width', screen_height')
                /\ SavedFile(events', screen_width', screen_height') = disk[1]
      ]_vars

\* C22 witness: a program that was started again (no session of its own,
\* start_time is None) has loaded a file saved on the large screen: it
\* holds the events of the file, delays included, and the size of the
\* capture screen.
C22_Witness ==
    /\ start_time = <<>>
    /\ filename = <<FileName>>
    /\ disk # <<>>
    /\ disk[1].metadata.screen_width = 1920
    /\ screen_width = 1920 /\ screen_height = 1080
    /\ events = disk[1].events
    /\ Len(events) = 4
    /\ events[2].type = "key_down" /\ events[2].delay = 0
    /\ events[3].type = "mouse_scroll" /\ events[3].delay = 10
    /\ events[4].type = "stop" /\ events[4].t = 10

(***************************************************************************)
(* The settings menu: the operator types lines for the move interval and   *)
(* the minimum distance, before and during a session.                      *)
(***************************************************************************)
DecimalDigits == { <<"0", 0>>, <<"1", 1>>, <<"2", 2>>, <<"3", 3>>, <<"4", 4>>,
                   <<"5", 5>>, <<"6", 6>>, <<"7", 7>>, <<"8", 8>>, <<"9", 9>> }

IsDigit(c) == \E p \in DecimalDigits : p[1] = c

RECURSIVE DigitsValue(_, _)
DigitsValue(chars, acc) ==
    IF chars = <<>> THEN acc
    ELSE DigitsValue(Tail(chars), acc * 10 + MapGet(DecimalDigits, chars[1], 0))

RECURSIVE LTrim(_)
LTrim(text) ==
    IF text # <<>> /\ text[1] = " " THEN LTrim(Tail(text)) ELSE text

RECURSIVE RTrim(_)
RTrim(text) ==
    IF text # <<>> /\ text[Len(text)] = " "
    THEN RTrim(SubSeq(text, 1, Len(text) - 1)) ELSE text

\* int(text) of a typed line, a sequence of characters: <<n>>, or <<>> when
\* int raises ValueError.  Blanks around the number and a sign before it
\* are accepted, anything else than digits is not.
ParseInt(text) ==
    LET trimmed == RTrim(LTrim(text))
        signed == trimmed # <<>> /\ trimmed[1] \in {"+", "-"}
        digits == IF signed THEN Tail(trimmed) ELSE trimmed
    IN  IF digits = <<>> \/ \E i \in 1..Len(digits) : ~IsDigit(digits[i])
        THEN <<>>
        ELSE <<(IF signed /\ trimmed[1] = "-" THEN -1 ELSE 1)
                   * DigitsValue(digits, 0)>>

\* Option 1: record_mouse_moves is toggled.
settings_record_moves ==
    /\ record_mouse_moves' = ~record_mouse_moves
    /\ UNCHANGED <<recVars, mouseVars, screenVars, now, disk, arduino_events,
                   splitVars, threadVars, discarded, min_mouse_move,
                   mouse_move_interval, filename, ino, outcome>>

\* Option 2 without the test of the range.
settings_interval_unchecked(text) ==
    /\ LET interval == ParseInt(text)
       IN  IF interval # <<>>
           THEN mouse_move_interval' = interval[1]
           ELSE UNCHANGED mouse_move_interval
    /\ UNCHANGED <<recVars, mouseVars, screenVars, now, disk, arduino_events,
                   splitVars, threadVars, discarded, record_mouse_moves,
                   min_mouse_move, filename, ino, outcome>>

\* Option 2: the line typed for the interval between moves.
settings_interval(text) ==
    /\ LET interval == ParseInt(text)
       IN  IF interval # <<>> /\ 10 <= interval[1] /\ interval[1] <= 1000
           THEN mouse_move_interval' = interval[1]
           ELSE UNCHANGED mouse_move_interval
    /\ UNCHANGED <<recVars, mouseVars, screenVars, now, disk, arduino_events,
                   splitVars, threadVars, discarded, record_mouse_moves,
                   min_mouse_move, filename, ino, outcome>>

\* Option 3: the line typed for the minimum distance.
settings_distance(text) ==
    /\ LET distance == ParseInt(text)
       IN  IF distance # <<>> /\ 1 <= distance[1] /\ distance[1] <= 50
           THEN min_mouse_move' = distance[1]
           ELSE UNCHANGED min_mouse_move
    /\ UNCHANGED <<recVars, mouseVars, screenVars, now, disk, arduino_events,
                   splitVars, threadVars, discarded, record_mouse_moves,
                   mouse_move_interval, filename, ino, outcome>>

MaxSettingsEvents == 2   \* longest timeline of the session

SettingsShort == Len(events') <= MaxSettingsEvents

\* The lines the operator types: numbers at and around the limits of both
\* settings, a negative number, a number with blanks, text and nothing.
TypedLines ==
    { <<"0">>, <<"1">>, <<"9">>, <<"1", "0">>, <<"5", "0">>, <<"5", "1">>,
      <<"1", "0", "0", "0">>, <<"1", "0", "0", "1">>, <<"-", "1", "0">>,
      <<" ", "1", "0", " ">>, <<"1", "0", ".", "5">>, <<"x">>, <<>> }

\* The positions the pointer reports.
MovePoints == {<<0, 0>>, <<8, 3>>, <<10, 3>>}

SettingsStart == events = <<>> /\ start_recording

SettingsMove ==
    /\ is_recording
    /\ \E p \in MovePoints : _on_move(p[1], p[2])
    /\ SettingsShort

SettingsRecordMoves == settings_record_moves

SettingsInterval == \E text \in TypedLines : settings_interval(text)

SettingsDistance == \E text \in TypedLines : settings_distance(text)

NextSettings ==
    \/ SettingsStart
    \/ SettingsMove
    \/ SettingsRecordMoves
    \/ SettingsInterval
    \/ SettingsDistance
    \/ Tick

SpecSettings == Init /\ [][NextSettings]_vars

\* C24: a configuration change with an invalid value is rejected and the
\* previous value is retained: the move interval changes only to a typed
\* integer within 10..1000 and the minimum distance only to a typed integer
\* within 1..50, and every other line, out of range or no integer, leaves
\* the setting as it was; so both settings stay inside their ranges.
C24_InvalidSettingRejected ==
    [][/\ \A text \in TypedLines :
             /\ settings_interval(text) =>
                   IF ParseInt(text) # <<>> /\ ParseInt(text)[1] \in 10..1000
                   THEN mouse_move_interval' = ParseInt(text)[1]
                   ELSE mouse_move_interval' = mouse_move_interval
             /\ settings_distance(text) =>
                   IF ParseInt(text) # <<>> /\ ParseInt(text)[1] \in 1..50
                   THEN min_mouse_move' = ParseInt(text)[1]
                   ELSE min_mouse_move' = min_mouse_move
       /\ mouse_move_interval' \in 10..1000
       /\ min_mouse_move' \in 1..50]_vars

\* C24 witness: both settings were changed to a limit of their range, the
\* interval to 1000 and the distance to 1.
C24_Witness ==
    /\ mouse_move_interval = 1000
    /\ min_mouse_move = 1

\* ---------------------------------------------------------------------
\* The pointer-move filter: one session in which the pointer moves and
\* clicks while the operator changes the filter's settings.
\* ---------------------------------------------------------------------

MaxMoveEvents == 3   \* longest timeline of the session

MoveShort == Len(events') <= MaxMoveEvents

MoveStart == events = <<>> /\ start_recording

MoveMove ==
    /\ is_recording
    /\ \E p \in MovePoints : _on_move(p[1], p[2])
    /\ MoveShort

MoveClick ==
    /\ is_recording
    /\ \E p \in MovePoints : _on_click(p[1], p[2], "LEFT", TRUE)
    /\ MoveShort

MoveRecordMoves == settings_record_moves

MoveInterval == settings_interval(<<"1", "0">>)

MoveDistance == settings_distance(<<"1">>)

NextMoves ==
    \/ MoveStart
    \/ MoveMove
    \/ MoveClick
    \/ MoveRecordMoves
    \/ MoveInterval
    \/ MoveDistance
    \/ Tick

SpecMoves == Init /\ [][NextMoves]_vars

IsMove(event) == event.type = "mouse_move"

HasPosition(event) == event.type \in {"mouse_move", "mouse_down", "mouse_up"}

\* The events of the timeline that satisfy a test, as indices.
Where(Test(_)) == {i \in 1..Len(events) : Test(events[i])}

Last(indices) == CHOOSE i \in indices : \A j \in indices : j <= i

\* At least the move interval has elapsed since the last accepted move of
\* the session; before the first accepted move it always has.
IntervalElapsed ==
    \/ Where(IsMove) = {}
    \/ now - (start_time[1] + events[Last(Where(IsMove))].t) >= mouse_move_interval

\* The last recorded pointer position: that of the last move or click of
\* the timeline, the origin before the first.
LastRecordedPosition ==
    IF Where(HasPosition) = {}
    THEN <<0, 0>>
    ELSE <<events[Last(Where(HasPosition))].x, events[Last(Where(HasPosition))].y>>

Displaced(p) ==
    \/ Abs(p[1] - LastRecordedPosition[1]) >= min_mouse_move
    \/ Abs(p[2] - LastRecordedPosition[2]) >= min_mouse_move

MoveAccepted(p) == record_mouse_moves /\ IntervalElapsed /\ Displaced(p)

\* The callback for a move to p appends the move to the timeline.
MoveRecorded(p) ==
    /\ _on_move(p[1], p[2])
    /\ Len(events') = Len(events) + 1
    /\ IsMove(events'[Len(events')])
    /\ events'[Len(events')].x = p[1]
    /\ events'[Len(events')].y = p[2]

\* The callback for a move to p changes what the filter remembers.
MoveChanges(p) ==
    /\ _on_move(p[1], p[2])
    /\ <<events, last_move_time, last_mouse_pos>>' # <<events, last_move_time, last_mouse_pos>>

\* C25: while recording, a pointer-move callback is recorded if and only if
\* move recording is enabled, at least the move interval has elapsed since
\* the last accepted move, and the displacement from the last recorded
\* pointer position reaches the minimum distance on at least one axis; a
\* suppressed move changes neither the timeline, nor the last accepted move
\* time, nor the last pointer position.
C25_MoveFilter ==
    (is_recording /\ ~paused) =>
        \A p \in MovePoints :
            /\ (ENABLED MoveRecorded(p)) <=> MoveAccepted(p)
            /\ ~MoveAccepted(p) => ~ENABLED MoveChanges(p)

\* C25 witness: with the interval set to 10 ms a move on one axis only was
\* recorded at the start of the session and the move back one tick later,
\* and a further move to the same place would now be suppressed.
C25_Witness ==
    /\ is_recording
    /\ ~paused
    /\ mouse_move_interval = 10
    /\ Len(events) = 3
    /\ IsMove(events[2]) /\ events[2].x = 8 /\ events[2].y = 3
    /\ IsMove(events[3]) /\ events[3].x = 0 /\ events[3].t > events[2].t
    /\ ~MoveAccepted(<<0, 0>>)
    /\ ~ENABLED MoveRecorded(<<0, 0>>)

(***************************************************************************)
(* Exporting again: a saved timeline is exported, and exported once more   *)
(* later, after the program was restarted, the settings changed or the     *)
(* file saved under another recorder state.                                *)
(***************************************************************************)
InitReexport ==
    /\ Init!2 /\ Init!3 /\ Init!4 /\ Init!5 /\ Init!6 /\ Init!7 /\ Init!8
    /\ Init!9 /\ Init!10 /\ Init!11 /\ Init!13 /\ Init!14 /\ Init!15
    /\ Init!16 /\ Init!17 /\ Init!18 /\ Init!19 /\ Init!20
    /\ Init!21 /\ Init!22 /\ Init!23
    /\ \E timeline \in FaultTimelines :
          /\ disk = <<SavedFile(timeline, 1920, 1080)>>
          /\ events = disk[1].events
    /\ filename = <<FileName>>

\* Time passes at the menu: the datetime.now() of the export moves on.
Wait ==
    /\ ~is_recording
    /\ now + TickMs <= Epoch + MaxTicks * TickMs
    /\ now' = now + TickMs
    /\ UNCHANGED <<recVars, mouseVars, screenVars, disk, arduino_events,
                   splitVars, auxVars, ino, outcome>>

ReexportExport == export_for_arduino(TRUE, TRUE)

ReexportLoad == disk # <<>> /\ load_recording(TRUE)

ReexportSave == save_recording(TRUE)

ReexportRecordMoves == settings_record_moves

NextReexport ==
    \/ ReexportExport
    \/ ReexportLoad
    \/ ReexportSave
    \/ ReexportRecordMoves
    \/ Restart
    \/ Wait

SpecReexport == InitReexport /\ [][NextReexport]_vars

\* C21: compile and render are deterministic: the timeline in memory is
\* always the one of the file, and an export of it made after an earlier
\* export, whatever happened to the recorder in between (restart on another
\* screen, load, save, settings, time), leaves the same instruction
\* sequence and the same program text as the earlier one.
C21_ExportDeterministic ==
    [][/\ disk' = disk
       /\ events' # <<>> => events' = disk'[1].events
       /\ (export_for_arduino(TRUE, TRUE) /\ arduino_events # <<>> /\ ino # <<>>) =>
             /\ arduino_events' = arduino_events
             /\ ino' = ino]_vars

\* C21 witness: a timeline that compiles to at least one instruction stands
\* exported, instruction sequence and program text, in a recorder that is
\* no longer in the state it started in: time has passed and move
\* recording is switched off.
C21_Witness ==
    /\ outcome = "True"
    /\ arduino_events = <<Compile(events)>>
    /\ ino = <<_generate_arduino_example(Compile(events))>>
    /\ Len(arduino_events[1]) > 0
    /\ now > Epoch
    /\ ~record_mouse_moves

(***************************************************************************)
(* The modifier flags against the set of modifier keys that are down.      *)
(***************************************************************************)
ModifierClasses == {"SHIFT", "CTRL", "ALT", "GUI"}

\* A key of the class, left or right variant, is in the down-modifier set.
ClassDown(class) == \E key_str \in current_modifiers : Contains(key_str, class)

\* C31: in every reachable state each modifier flag (SHIFT, CTRL, ALT, GUI)
\* is true exactly when at least one key of that class, left or right
\* variant, is in the currently-down modifier set; with both SHIFT keys
\* down, releasing one of them leaves the SHIFT flag true.
C31_FlagsFollowDownSet ==
    \A class \in ModifierClasses : active_modifiers[class] <=> ClassDown(class)

(***************************************************************************)
(* The key string of a release against the one of the press.               *)
(***************************************************************************)
\* The last key_down of a non-modifier key in the session, 0 when there is
\* none: with one such key at the keyboard it is the press of that key.
LastPress(evs) ==
    LET downs == {i \in 1..Len(evs) :
                     evs[i].type = "key_down" /\ ~Get(evs[i], "modifier", FALSE)}
    IN  IF downs = {} THEN 0 ELSE CHOOSE i \in downs : \A j \in downs : j <= i

\* C32: for every non-modifier key, the key_up event recorded for a physical
\* key carries the same logical key string as the key_down event recorded
\* for the same press, also while SHIFT is held (a key_down recorded as 'A'
\* is matched by a key_up recorded as 'A').
C32_KeyUpMatchesKeyDown ==
    [][(/\ is_recording /\ ~paused
        /\ _on_key_release(CharObj("a"))
        /\ LastPress(Session(events)) # 0)
       => events'[Len(events')].key =
              Session(events)[LastPress(Session(events))].key]_vars

(***************************************************************************)
(* The recorded relative moves against the recorded positions.             *)
(***************************************************************************)
\* The sum of a field (dx or dy) of the mouse_move events among the first n
\* events.
RECURSIVE MovedBy(_, _, _)
MovedBy(evs, n, field) ==
    IF n = 0 THEN 0
    ELSE MovedBy(evs, n - 1, field)
         + (IF IsMove(evs[n]) THEN evs[n][field] ELSE 0)

\* The pointer origin the recorder holds when the first session starts.
SessionOrigin == <<0, 0>>

\* C33: the recorded relative moves reproduce the pointer path: the position
\* of every pointer event recorded in the session (move, button down, button
\* up) is the pointer origin held at the session start plus the sum of dx
\* and dy of the mouse_move events recorded up to and including it.
C33_MovesReproducePath ==
    \A i \in 1..Len(events) :
        HasPosition(events[i]) =>
            /\ events[i].x = SessionOrigin[1] + MovedBy(events, i, "dx")
            /\ events[i].y = SessionOrigin[2] + MovedBy(events, i, "dy")

(***************************************************************************)
(* The replay time of the compiled instructions.                           *)
(***************************************************************************)
\* The number of instructions the export loop has appended after the first
\* n events.
CompiledUpTo(evs, n) == Len(CompileLoop(SubSeq(evs, 1, n)))

\* The time at which the replay reaches instruction j: the sum of the
\* delays, before the post-pass, of the instructions up to and including it.
ReplayTime(instrs, j) == SumSeq(Delays(SubSeq(instrs, 1, j)))

\* C34: compilation preserves replay timing: for every compiled instruction
\* the sum of the delays, before the 10 ms post-pass, of the instructions up
\* to and including it equals the elapsed time of its source event, so that
\* dropping an event (control marker, unmappable key, zero scroll, zero
\* move) does not shift the replay time of later events.
C34_ReplayTimingPreserved ==
    arduino_events # <<>> =>
        \A k \in 1..Len(events) :
            \A j \in CompiledUpTo(events, k - 1) + 1 .. CompiledUpTo(events, k) :
                ReplayTime(CompileLoop(events), j) = events[k].t

====
